---- MODULE Spec2Model ----
(***************************************************************************)
(* Population annealing optimizer of nested/optimize_utils.py:             *)
(* Individual, PopulationStorage (append / save / load / global_rerank),   *)
(* the PopulationAnnealing generator with update_population, the ranking   *)
(* and selection functions, and the hot-start repair of Pregenerated.      *)
(*                                                                         *)
(* Python values are modelled as follows.                                  *)
(*   - an attribute that may be None is a sequence of length <= 1:         *)
(*     None is <<>> and a value v is <<v>>;                                *)
(*   - a dict is a function whose DOMAIN is its key set;                   *)
(*   - a list is a sequence; deepcopy is the identity on values, and the   *)
(*     places where the code mutates shared objects in place are written   *)
(*     back explicitly (see WriteBack and global_rerank);                   *)
(*   - the step size is kept as the number of times it was multiplied by   *)
(*     adaptive_step_factor (stepsize = initial_step_size * factor^k).     *)
(***************************************************************************)
EXTENDS Integers, Sequences, FiniteSets, TLC

VARIABLES
    pa,        \* the PopulationAnnealing object (its storage is the variable storage)
    storage,   \* the PopulationStorage object that is operated on
    file,      \* the checkpoint file at storage_file_path
    pc,        \* position of the generator returned by PopulationAnnealing.__call__
    batch,     \* the value of the last yield: <<generation, model_ids>>
    pregen,    \* the Pregenerated object built by the last hot start
    evaluate,  \* what the caller's evaluation returns for each parameter vector
    op         \* the operation called last, with what the properties need of it

vars == <<pa, storage, file, pc, batch, pregen, evaluate, op>>

----------------------------------------------------------------------------
(* Bounds of the model *)

PopSize == 1          \* pop_size of the modelled run
PathLength == 2       \* path_length of the modelled run
MaxIter == 2          \* max_iter of the modelled run
BatchSize == 3        \* pop_size of the single-batch scenario
MaxExtraUpdates == 1  \* update_population calls beyond one per generation that are explored
MaxStoredGens == 2    \* generations a storage object holds in the storage scenario
NumPoints == 3        \* parameter vectors in the file given to Pregenerated
MaxLoads == 1         \* storage objects built from the checkpoint file in the storage scenario
MaxCandidates == 4    \* individuals in a list given to the ranking and selection functions
MaxCalls == 2         \* calls of one selection function on one list
MaxListed == 2        \* individuals in a list in which some can lack objectives
MaxFunctionCalls == 2 \* functions called one after the other on such a list
NumModels == 4        \* num_models given to Sobol
SlicePopSize == 2     \* pop_size given to Sobol in the modelled run of pregenerated rows

(* Inputs *)

ParamNames == <<"p1">>
FeatureNames == <<"f1">>
ObjectiveNames == <<"o1">>
XVals == {0, 1, 2}     \* grid of parameter values between xmin and xmax
ObjVals == {0, 1}     \* objective values returned by the evaluation

----------------------------------------------------------------------------
(* Python helpers *)

None == <<>>
Some(v) == <<v>>
the(o) == o[1]

Range(s) == {s[i] : i \in 1..Len(s)}

Max(a, b) == IF a >= b THEN a ELSE b
Min(a, b) == IF a <= b THEN a ELSE b

\* s[-1]
Last(s) == s[Len(s)]

\* del s[-1]
DelLast(s) == SubSeq(s, 1, Len(s) - 1)

\* s[-1] = v
SetLast(s, v) == [s EXCEPT ![Len(s)] = v]

RECURSIVE Flatten(_)
Flatten(ss) == IF ss = <<>> THEN <<>> ELSE Head(ss) \o Flatten(Tail(ss))

\* indexes.sort(key=vals.__getitem__): the stable sort of the positions of
\* vals by their value, by insertion
RECURSIVE InsertIndex(_, _, _)
InsertIndex(sorted, i, vals) ==
    IF sorted = <<>> THEN <<i>>
    ELSE IF vals[i] < vals[Head(sorted)] THEN <<i>> \o sorted
    ELSE <<Head(sorted)>> \o InsertIndex(Tail(sorted), i, vals)

RECURSIVE SortIndexesFrom(_, _, _)
SortIndexesFrom(done, i, vals) ==
    IF i > Len(vals) THEN done
    ELSE SortIndexesFrom(InsertIndex(done, i, vals), i + 1, vals)

SortIndexes(vals) == SortIndexesFrom(<<>>, 1, vals)

\* sorted(s, key=...) with keys[i] the key of s[i]
SortedBy(s, keys) == LET idx == SortIndexes(keys) IN [i \in 1..Len(s) |-> s[idx[i]]]

\* all orders in which the elements of s can come out of list(set(s))
Permutations_(s) ==
    {[i \in 1..Len(s) |-> s[p[i]]] :
        p \in {q \in [1..Len(s) -> 1..Len(s)] : \A i, j \in 1..Len(s) : i # j => q[i] # q[j]}}

\* dicts
EmptyDict == [k \in {} |-> None]
DictSet(d, k, v) == [x \in DOMAIN d \cup {k} |-> IF x = k THEN v ELSE d[x]]

----------------------------------------------------------------------------
(* class Individual *)

Individual(x, model_id) ==
    [x |-> x, features |-> None, objectives |-> None, normalized_objectives |-> None,
     energy |-> None, rank |-> None, distance |-> None, fitness |-> None,
     survivor |-> FALSE, model_id |-> model_id]

----------------------------------------------------------------------------
(* class PopulationStorage *)

PopulationStorage(param_names, feature_names, objective_names, path_length, normalize) ==
    [param_names |-> param_names, feature_names |-> feature_names,
     objective_names |-> objective_names, path_length |-> path_length,
     normalize |-> normalize,
     history |-> <<>>, survivors |-> <<>>, specialists |-> <<>>,
     prev_survivors |-> <<>>, prev_specialists |-> <<>>, failed |-> <<>>,
     min_objectives |-> <<>>, max_objectives |-> <<>>,
     attributes |-> EmptyDict, count |-> Some(0)]

\* append with count += len(population) only
append_FailedUncounted(st, population, survivors, specialists, prev_survivors, prev_specialists, failed, min_objectives, max_objectives, kwargs) ==
    LET keys == DOMAIN st.attributes \cup DOMAIN kwargs
        created == [k \in keys |-> IF k \in DOMAIN st.attributes THEN st.attributes[k] ELSE <<>>]
    IN [st EXCEPT
          !.survivors = Append(@, survivors),
          !.specialists = Append(@, specialists),
          !.prev_survivors = Append(@, prev_survivors),
          !.prev_specialists = Append(@, prev_specialists),
          !.history = Append(@, population),
          !.failed = Append(@, failed),
          !.count = Some(the(@) + Len(population)),
          !.min_objectives = Append(@, min_objectives),
          !.max_objectives = Append(@, max_objectives),
          !.attributes = [k \in keys |->
                             Append(created[k],
                                    IF k \in DOMAIN kwargs THEN Some(kwargs[k]) ELSE None)]]

\* PopulationStorage.append; kwargs is the dict of named attributes
append(st, population, survivors, specialists, prev_survivors, prev_specialists, failed, min_objectives, max_objectives, kwargs) ==
    LET keys == DOMAIN st.attributes \cup DOMAIN kwargs
        created == [k \in keys |-> IF k \in DOMAIN st.attributes THEN st.attributes[k] ELSE <<>>]
    IN [st EXCEPT
          !.survivors = Append(@, survivors),
          !.specialists = Append(@, specialists),
          !.prev_survivors = Append(@, prev_survivors),
          !.prev_specialists = Append(@, prev_specialists),
          !.history = Append(@, population),
          !.failed = Append(@, failed),
          !.count = Some(the(@) + Len(population) + Len(failed)),
          !.min_objectives = Append(@, min_objectives),
          !.max_objectives = Append(@, max_objectives),
          !.attributes = [k \in keys |->
                             Append(created[k],
                                    IF k \in DOMAIN kwargs THEN Some(kwargs[k]) ELSE None)]]

\* append on an object that has no count (loaded from a file without
\* generations): self.count += ... raises after the first six lists grew
append_without_count(st, population, failed) ==
    [st EXCEPT
       !.survivors = Append(@, <<>>),
       !.specialists = Append(@, <<>>),
       !.prev_survivors = Append(@, <<>>),
       !.prev_specialists = Append(@, <<>>),
       !.history = Append(@, population),
       !.failed = Append(@, failed)]

----------------------------------------------------------------------------
(* The checkpoint file.  gens maps the name of each generation group that  *)
(* is in the file (its index) to the group; a group holds its attributes,  *)
(* the two bounds datasets when they were written, and the subgroups that  *)
(* were written, each a list of member records.                            *)

GroupNames == <<"population", "survivors", "specialists", "prev_survivors", "prev_specialists",
                "failed">>

NaN == -1

None2nan(o) == IF o = None THEN NaN ELSE the(o)
nan2None(v) == IF v = NaN THEN None ELSE Some(v)

\* set_h5py_attr / get_h5py_attr: the value is stored in an encoded form
set_h5py_attr(v) == [h5 |-> v]
get_h5py_attr(e) == e.h5

NoFile ==
    [exists |-> FALSE,
     attrs |-> [param_names |-> None, feature_names |-> None, objective_names |-> None,
                path_length |-> None, normalize |-> None, user_attribute_names |-> None],
     gens |-> [g \in {} |-> None]]

\* h5py.File(file_path, io)
OpenFile(f, io) == IF io = "w" \/ ~f.exists THEN [NoFile EXCEPT !.exists = TRUE] ELSE f

\* the member group written for one individual
SavedMember(individual, group_name) ==
    [id |-> None2nan(individual.model_id),
     x |-> individual.x,
     scalars |-> IF group_name = "failed" THEN EmptyDict
                 ELSE [k \in {"energy", "rank", "distance", "fitness"} |->
                          CASE k = "energy" -> None2nan(individual.energy)
                            [] k = "rank" -> None2nan(individual.rank)
                            [] k = "distance" -> None2nan(individual.distance)
                            [] k = "fitness" -> None2nan(individual.fitness)],
     survivor |-> IF group_name = "failed" THEN None ELSE Some(individual.survivor),
     datasets |-> IF group_name = "failed" THEN EmptyDict
                  ELSE [k \in {n \in {"features", "objectives", "normalized_objectives"} :
                                 CASE n = "features" -> individual.features # None
                                   [] n = "objectives" -> individual.objectives # None
                                   [] n = "normalized_objectives" ->
                                          individual.normalized_objectives # None} |->
                           CASE k = "features" -> the(individual.features)
                             [] k = "objectives" -> the(individual.objectives)
                             [] k = "normalized_objectives" ->
                                    the(individual.normalized_objectives)]]

StoredList(st, group_name, gen_index) ==
    CASE group_name = "population" -> st.history[gen_index + 1]
      [] group_name = "survivors" -> st.survivors[gen_index + 1]
      [] group_name = "specialists" -> st.specialists[gen_index + 1]
      [] group_name = "prev_survivors" -> st.prev_survivors[gen_index + 1]
      [] group_name = "prev_specialists" -> st.prev_specialists[gen_index + 1]
      [] group_name = "failed" -> st.failed[gen_index + 1]

\* the generation group that save writes for gen_index, with the first
\* num_groups subgroups (all six in a save that runs to its end)
SavedGroup(st, gen_index, num_groups) ==
    LET has_bounds == Len(st.min_objectives[gen_index + 1]) > 0
                      /\ Len(st.max_objectives[gen_index + 1]) > 0
    IN [attrs |-> [k \in DOMAIN st.attributes |->
                      set_h5py_attr(st.attributes[k][gen_index + 1])],
        count |-> st.count,
        min_objectives |-> IF has_bounds THEN Some(st.min_objectives[gen_index + 1]) ELSE None,
        max_objectives |-> IF has_bounds THEN Some(st.max_objectives[gen_index + 1]) ELSE None,
        groups |-> [name \in {GroupNames[i] : i \in 1..num_groups} |->
                       [i \in 1..Len(StoredList(st, name, gen_index)) |->
                           SavedMember(StoredList(st, name, gen_index)[i], name)]]]

\* what is left of the group when attributes[key][gen_index] raises IndexError:
\* the group and the attributes written before the failing key
BrokenGroup(st, gen_index) ==
    [attrs |-> [k \in {a \in DOMAIN st.attributes : Len(st.attributes[a]) > gen_index} |->
                   set_h5py_attr(st.attributes[k][gen_index + 1])],
     count |-> None, min_objectives |-> None, max_objectives |-> None,
     groups |-> [name \in {} |-> <<>>]]

AttributesIndexable(st, gen_index) ==
    \A k \in DOMAIN st.attributes : Len(st.attributes[k]) > gen_index

\* the n given to save: None, 'all', an int, or any other value
N_None == [kind |-> "None", val |-> 0]
N_all == [kind |-> "all", val |-> 0]
N_int(k) == [kind |-> "int", val |-> k]
N_other == [kind |-> "other", val |-> 0]

\* the top-level attributes save sets when they are not in the file yet
WithFileAttrs(st, f) ==
    [f EXCEPT !.attrs =
        [param_names |-> IF @.param_names = None
                         THEN Some(set_h5py_attr(st.param_names)) ELSE @.param_names,
         feature_names |-> IF @.feature_names = None
                           THEN Some(set_h5py_attr(st.feature_names)) ELSE @.feature_names,
         objective_names |-> IF @.objective_names = None
                             THEN Some(set_h5py_attr(st.objective_names))
                             ELSE @.objective_names,
         path_length |-> IF @.path_length = None THEN Some(st.path_length) ELSE @.path_length,
         normalize |-> IF @.normalize = None
                       THEN Some(set_h5py_attr(st.normalize)) ELSE @.normalize,
         user_attribute_names |->
             IF @.user_attribute_names = None /\ DOMAIN st.attributes # {}
             THEN Some(set_h5py_attr(DOMAIN st.attributes)) ELSE @.user_attribute_names]]

\* the number of generations save exports for the given n
SaveCount(st, n) ==
    LET n1 == CASE n.kind = "None" -> 1
                [] n.kind = "all" -> Len(st.history)
                [] n.kind = "int" -> n.val
                [] OTHER -> 1
    IN IF Len(st.history) - n1 < 0 THEN Len(st.history) ELSE n1

SaveStart(st, n) == Max(0, Len(st.history) - SaveCount(st, n))

\* the while loop of save: the file it leaves and whether it raised
RECURSIVE SaveLoop(_, _, _, _)
SaveLoop(st, f, gen_index, n) ==
    IF n <= 0 THEN [file |-> f, raised |-> FALSE]
    ELSE IF gen_index \in DOMAIN f.gens THEN SaveLoop(st, f, gen_index + 1, n - 1)
    ELSE IF ~AttributesIndexable(st, gen_index)
         THEN [file |-> [f EXCEPT !.gens = DictSet(@, gen_index, BrokenGroup(st, gen_index))],
               raised |-> TRUE]
    ELSE SaveLoop(st, [f EXCEPT !.gens = DictSet(@, gen_index, SavedGroup(st, gen_index, 6))],
                  gen_index + 1, n - 1)

\* the file opened in write mode whatever n is
OpenMode_Write(n) == "w"

\* io = 'w' if n == 'all' else 'a'
OpenMode(n) == IF n.kind = "all" THEN "w" ELSE "a"

\* PopulationStorage.save
save(st, f, n) ==
    SaveLoop(st, WithFileAttrs(st, OpenFile(f, OpenMode(n))), SaveStart(st, n), SaveCount(st, n))

\* the individual load builds from one member group
LoadedMember(m, group_name) ==
    LET ds(name) == IF name \in DOMAIN m.datasets THEN Some(m.datasets[name]) ELSE None
        sc(name) == nan2None(IF name \in DOMAIN m.scalars THEN m.scalars[name] ELSE NaN)
        base == Individual(m.x, nan2None(m.id))
    IN IF group_name = "failed" THEN base
       ELSE [base EXCEPT !.features = ds("features"),
                         !.objectives = ds("objectives"),
                         !.normalized_objectives = ds("normalized_objectives"),
                         !.energy = sc("energy"), !.rank = sc("rank"),
                         !.distance = sc("distance"), !.fitness = sc("fitness"),
                         !.survivor = IF m.survivor = None THEN FALSE ELSE the(m.survivor)]

LoadedList(g, group_name) ==
    IF group_name \notin DOMAIN g.groups THEN <<>>
    ELSE [i \in 1..Len(g.groups[group_name]) |-> LoadedMember(g.groups[group_name][i], group_name)]

\* load raises when a top-level attribute is missing, when a group named
\* 0 .. len(f) - 1 is not in the file, or when a group has no count
Loadable(f) ==
    /\ f.exists
    /\ f.attrs.param_names # None /\ f.attrs.feature_names # None
    /\ f.attrs.objective_names # None /\ f.attrs.path_length # None
    /\ f.attrs.normalize # None
    /\ \A gen_index \in 0..(Cardinality(DOMAIN f.gens) - 1) :
          gen_index \in DOMAIN f.gens /\ f.gens[gen_index].count # None

\* PopulationStorage.load, for a file it can read
load(f) ==
    LET num == Cardinality(DOMAIN f.gens)
        keys == IF f.attrs.user_attribute_names = None THEN {}
                ELSE get_h5py_attr(the(f.attrs.user_attribute_names))
        col(name) == [gi \in 1..num |-> LoadedList(f.gens[gi - 1], name)]
        present(k) == SelectSeq([gi \in 1..num |-> gi], LAMBDA gi : k \in DOMAIN f.gens[gi - 1].attrs)
    IN [param_names |-> get_h5py_attr(the(f.attrs.param_names)),
        feature_names |-> get_h5py_attr(the(f.attrs.feature_names)),
        objective_names |-> get_h5py_attr(the(f.attrs.objective_names)),
        path_length |-> the(f.attrs.path_length),
        normalize |-> get_h5py_attr(the(f.attrs.normalize)),
        history |-> col("population"), survivors |-> col("survivors"),
        specialists |-> col("specialists"), prev_survivors |-> col("prev_survivors"),
        prev_specialists |-> col("prev_specialists"), failed |-> col("failed"),
        min_objectives |-> [gi \in 1..num |->
                               IF f.gens[gi - 1].min_objectives = None THEN <<>>
                               ELSE the(f.gens[gi - 1].min_objectives)],
        max_objectives |-> [gi \in 1..num |->
                               IF f.gens[gi - 1].max_objectives = None THEN <<>>
                               ELSE the(f.gens[gi - 1].max_objectives)],
        attributes |-> [k \in keys |->
                           [j \in 1..Len(present(k)) |->
                               get_h5py_attr(f.gens[present(k)[j] - 1].attrs[k])]],
        count |-> IF num = 0 THEN None ELSE f.gens[num - 1].count]

----------------------------------------------------------------------------
(* Fitness, energy, rank and selection functions.  A function that        *)
(* modifies the individuals in place returns the list with the modified   *)
(* individuals at their positions.                                        *)

\* the check every function starts with: objectives stored for all Individuals
HasObjectives(population) == \A i \in 1..Len(population) : population[i].objectives # None

Objs(individual) == the(individual.objectives)

\* np.minimum / np.maximum of two arrays
Minimum(a, b) == [m \in 1..Len(a) |-> Min(a[m], b[m])]
Maximum(a, b) == [m \in 1..Len(a) |-> Max(a[m], b[m])]

RECURSIVE FoldObjectives(_, _, _, _)
FoldObjectives(acc, population, i, lower) ==
    IF i > Len(population) THEN acc
    ELSE FoldObjectives(IF lower THEN Minimum(acc, Objs(population[i]))
                        ELSE Maximum(acc, Objs(population[i])),
                        population, i + 1, lower)

\* get_objectives_edges, for a population that has objectives
get_objectives_edges(population, min_objectives, max_objectives, normalize) ==
    IF Len(population) = 0 THEN [min |-> min_objectives, max |-> max_objectives]
    ELSE [min |-> FoldObjectives(IF normalize = "local" \/ Len(min_objectives) = 0
                                 THEN Objs(population[1]) ELSE min_objectives,
                                 population, 1, TRUE),
          max |-> FoldObjectives(IF normalize = "local" \/ Len(max_objectives) = 0
                                 THEN Objs(population[1]) ELSE max_objectives,
                                 population, 1, FALSE)]

\* dominates that asks for every objective to be strictly better
dominates_AllStrict(p, q) == \A m \in 1..Len(Objs(p)) : Objs(p)[m] - Objs(q)[m] < 0

\* dominates(p, q) of assign_fitness_by_dominance
dominates(p, q) ==
    /\ \A m \in 1..Len(Objs(p)) : Objs(p)[m] - Objs(q)[m] <= 0
    /\ \E m \in 1..Len(Objs(p)) : Objs(p)[m] - Objs(q)[m] < 0

\* the fronts after F[i]: n[q] is lowered once for every p of the front that
\* dominates q, and q joins the next front when n[q] gets to 0
RECURSIVE PeelFronts(_, _, _, _, _)
PeelFronts(population, front, n, fitness, i) ==
    IF front = {} THEN fitness
    ELSE LET lowered == [q \in DOMAIN n |->
                            n[q] - Cardinality({p \in front : dominates(population[p],
                                                                        population[q])})]
             next == {q \in DOMAIN n : n[q] > 0 /\ lowered[q] = 0}
         IN PeelFronts(population, next, lowered,
                       [q \in DOMAIN fitness |-> IF q \in next THEN Some(i + 1) ELSE fitness[q]],
                       i + 1)

\* assign_fitness_by_dominance
assign_fitness_by_dominance(population) ==
    LET P == 1..Len(population)
        num_objectives == IF P = {} THEN 0
                          ELSE CHOOSE k \in {Len(Objs(population[i])) : i \in P} :
                                  \A j \in P : Len(Objs(population[j])) <= k
        n == [p \in P |-> Cardinality({q \in P : dominates(population[q], population[p])})]
        F0 == {p \in P : n[p] = 0}
        fitness == IF num_objectives > 1
                   THEN PeelFronts(population, F0, n,
                                   [p \in P |-> IF p \in F0 THEN Some(0)
                                                ELSE population[p].fitness], 0)
                   ELSE [p \in P |-> Some(0)]
    IN [p \in P |-> [population[p] EXCEPT !.fitness = fitness[p]]]

\* normalize_dynamic for a value at one of the two ends of [min_val, max_val],
\* where the linear and the logarithmic branch give the same result
normalize_dynamic(val, min_val, max_val) ==
    IF max_val = 0 THEN val ELSE (val - min_val) \div (max_val - min_val)

\* assign_normalized_objectives
assign_normalized_objectives(population, min_objectives, max_objectives) ==
    LET edges == IF Len(min_objectives) = 0 \/ Len(max_objectives) = 0
                 THEN get_objectives_edges(population, <<>>, <<>>, "global")
                 ELSE [min |-> min_objectives, max |-> max_objectives]
    IN [p \in 1..Len(population) |->
           [population[p] EXCEPT !.normalized_objectives =
               Some([m \in 1..Len(Objs(population[p])) |->
                        IF edges.min[m] # edges.max[m]
                        THEN normalize_dynamic(Objs(population[p])[m], edges.min[m], edges.max[m])
                        ELSE 0])]]

RECURSIVE SumSeq(_)
SumSeq(s) == IF s = <<>> THEN 0 ELSE Head(s) + SumSeq(Tail(s))

\* assign_relative_energy
assign_relative_energy(population) ==
    [p \in 1..Len(population) |->
        [population[p] EXCEPT !.energy = Some(SumSeq(the(population[p].normalized_objectives)))]]

\* sort_by_energy
sort_by_energy(population) ==
    SortedBy(population, [i \in 1..Len(population) |-> the(population[i].energy)])

\* sort_by_rank
sort_by_rank(population) ==
    SortedBy(population, [i \in 1..Len(population) |-> the(population[i].rank)])

\* the positions of population with the given fitness, in list order
FrontPositions(population, fitness) ==
    SelectSeq([i \in 1..Len(population) |-> i], LAMBDA i : population[i].fitness = Some(fitness))

\* RankOrder that leaves each front in list order
RECURSIVE RankOrder_FrontsUnsorted(_, _, _)
RankOrder_FrontsUnsorted(population, fitness, max_fitness) ==
    IF fitness > max_fitness THEN <<>>
    ELSE FrontPositions(population, fitness)
         \o RankOrder_FrontsUnsorted(population, fitness + 1, max_fitness)

\* new_population of assign_rank_by_fitness_and_energy, as positions
RECURSIVE RankOrder(_, _, _)
RankOrder(population, fitness, max_fitness) ==
    IF fitness > max_fitness THEN <<>>
    ELSE LET front == FrontPositions(population, fitness)
         IN SortedBy(front, [i \in 1..Len(front) |-> the(population[front[i]].energy)])
            \o RankOrder(population, fitness + 1, max_fitness)

MaxFitness(population) ==
    CHOOSE k \in {the(population[i].fitness) : i \in 1..Len(population)} :
        \A j \in 1..Len(population) : the(population[j].fitness) <= k

\* assign_rank_by_fitness_and_energy
assign_rank_by_fitness_and_energy(population) ==
    LET order == RankOrder(population, 0, MaxFitness(population))
    IN [p \in 1..Len(population) |->
           [population[p] EXCEPT !.rank =
               Some((CHOOSE r \in 1..Len(order) : order[r] = p) - 1)]]

\* evaluate_population_annealing, for a non-empty population that has objectives
evaluate_population_annealing(population, min_objectives, max_objectives) ==
    assign_rank_by_fitness_and_energy(
        assign_relative_energy(
            assign_normalized_objectives(
                assign_fitness_by_dominance(population), min_objectives, max_objectives)))

\* the for loop over the objectives of assign_crowding_distance, m the next
\* objective.  A distance is held as <<b, d>>, standing for b * 1.e15 + d;
\* the objective values differ by whole numbers and the quotient is exact.
RECURSIVE CrowdingLoop(_, _, _)
CrowdingLoop(population, m, num_objectives) ==
    IF m > num_objectives THEN population
    ELSE LET pop_size == Len(population)
             indexes == SortIndexes([i \in 1..pop_size |-> Objs(population[i])[m]])
             objective_min == Objs(population[indexes[1]])[m]
             objective_max == Objs(population[indexes[pop_size]])[m]
             place(i) == CHOOSE k \in 1..pop_size : indexes[k] = i
             borders(i) == (IF place(i) = 1 THEN 1 ELSE 0)
                           + (IF place(i) = pop_size THEN 1 ELSE 0)
             inner(i) == IF objective_min # objective_max /\ place(i) \in 2..(pop_size - 1)
                         THEN (Objs(population[indexes[place(i) + 1]])[m]
                               - Objs(population[indexes[place(i) - 1]])[m])
                              \div (objective_max - objective_min)
                         ELSE 0
         IN CrowdingLoop([i \in 1..pop_size |->
                             [population[i] EXCEPT !.distance =
                                 Some(<<the(@)[1] + borders(i), the(@)[2] + inner(i)>>)]],
                         m + 1, num_objectives)

\* assign_crowding_distance, for a non-empty population that has objectives
assign_crowding_distance(population) ==
    LET P == 1..Len(population)
        num_objectives == CHOOSE k \in {Len(Objs(population[i])) : i \in P} :
                              \A j \in P : Len(Objs(population[j])) <= k
    IN CrowdingLoop([i \in P |-> [population[i] EXCEPT !.distance = Some(<<0, 0>>)]],
                    1, num_objectives)

\* evaluate_random that checks the objectives as the other functions do
evaluate_random_ChecksObjectives(population, rank_vals) ==
    IF HasObjectives(population)
    THEN [raised |-> FALSE,
          population |-> [i \in 1..Len(population) |->
                             [population[i] EXCEPT !.rank = Some(rank_vals[i])]]]
    ELSE [raised |-> TRUE, population |-> population]

\* evaluate_random, rank_vals the list np.random.shuffle leaves
evaluate_random(population, rank_vals) ==
    [raised |-> FALSE,
     population |-> [i \in 1..Len(population) |->
                        [population[i] EXCEPT !.rank = Some(rank_vals[i])]]]

Take(s, k) == SubSeq(s, 1, Min(Max(k, 0), Len(s)))
Drop(s, k) == SubSeq(s, Min(Max(k, 0), Len(s)) + 1, Len(s))

\* RankedPositions that leaves the list in its order
RankedPositions_ListOrder(population) == [i \in 1..Len(population) |-> i]

\* the positions of population in the order of sort_by_rank
RankedPositions(population) ==
    SortIndexes([i \in 1..Len(population) |-> the(population[i].rank)])

\* the for loop over the fitness groups of select_survivors_by_rank_and_fitness
RECURSIVE DiversityLoop(_, _, _, _, _, _)
DiversityLoop(population, diversity_pool, diversity_survivors, fitness, max_fitness, num_diversity_survivors) ==
    IF fitness > max_fitness \/ Len(diversity_survivors) >= num_diversity_survivors
    THEN diversity_survivors
    ELSE LET group == SelectSeq(diversity_pool,
                                LAMBDA i : population[i].fitness = Some(fitness))
             this_num_survivors == Max(1, Len(group) \div Len(diversity_pool))
             sorted_group == SortedBy(group, [j \in 1..Len(group) |->
                                                 the(population[group[j]].rank)])
         IN DiversityLoop(population, diversity_pool,
                          diversity_survivors \o
                              (IF Len(group) > 0 THEN Take(sorted_group, this_num_survivors)
                               ELSE <<>>),
                          fitness + 1, max_fitness, num_diversity_survivors)

\* SelectedPositions that takes the diversity pool from the whole sorted
\* population, the survivors included
SelectedPositions_PoolFromAll(population, num_survivors, num_diversity_survivors, fitness_range) ==
    LET sorted_population == RankedPositions(population)
        survivors == Take(sorted_population, num_survivors)
        max_fitness == Min(MaxFitness(population), fitness_range)
        diversity_pool == SelectSeq(sorted_population,
                                    LAMBDA i : the(population[i].fitness) \in 1..max_fitness)
    IN IF Len(diversity_pool) = 0 THEN survivors
       ELSE survivors \o Take(DiversityLoop(population, diversity_pool, <<>>, 1, max_fitness,
                                            num_diversity_survivors),
                              num_diversity_survivors)

\* select_survivors_by_rank_and_fitness, as the positions of the selected individuals
SelectedPositions(population, num_survivors, num_diversity_survivors, fitness_range) ==
    LET sorted_population == RankedPositions(population)
        survivors == Take(sorted_population, num_survivors)
        remaining_population == Drop(sorted_population, Len(survivors))
        max_fitness == Min(MaxFitness(population), fitness_range)
        diversity_pool == SelectSeq(remaining_population,
                                    LAMBDA i : the(population[i].fitness) \in 1..max_fitness)
    IN IF Len(diversity_pool) = 0 THEN survivors
       ELSE survivors \o Take(DiversityLoop(population, diversity_pool, <<>>, 1, max_fitness,
                                            num_diversity_survivors),
                              num_diversity_survivors)

select_survivors_by_rank_and_fitness(population, num_survivors, num_diversity_survivors, fitness_range) ==
    LET pos == SelectedPositions(population, num_survivors, num_diversity_survivors,
                                 fitness_range)
    IN [k \in 1..Len(pos) |-> population[pos[k]]]

\* select_survivors_by_rank
select_survivors_by_rank(population, num_survivors) ==
    Take(sort_by_rank(population), num_survivors)

\* SpecialistLoop that takes the first of the individuals tied at the minimum
RECURSIVE SpecialistLoop_FirstOfTied(_, _, _, _)
SpecialistLoop_FirstOfTied(population, order, m, num_objectives) ==
    IF m > num_objectives THEN <<>>
    ELSE LET sorted == SortedBy(order, [j \in 1..Len(order) |-> Objs(population[order[j]])[m]])
         IN <<sorted[1]>> \o SpecialistLoop_FirstOfTied(population, sorted, m + 1, num_objectives)

\* the for loop over the objectives of get_specialists: order is the list
\* as the sorts so far have left it, m the next objective
RECURSIVE SpecialistLoop(_, _, _, _)
SpecialistLoop(population, order, m, num_objectives) ==
    IF m > num_objectives THEN <<>>
    ELSE LET sorted == SortedBy(order, [j \in 1..Len(order) |-> Objs(population[order[j]])[m]])
             reference_objective_val == Objs(population[sorted[1]])[m]
             group == SelectSeq(sorted,
                                LAMBDA i : Objs(population[i])[m] = reference_objective_val)
             by_energy == IF Len(group) > 1
                          THEN SortedBy(group, [j \in 1..Len(group) |->
                                                   the(population[group[j]].energy)])
                          ELSE group
         IN <<by_energy[1]>> \o SpecialistLoop(population, sorted, m + 1, num_objectives)

\* get_specialists, as the positions of the specialists
SpecialistPositions(population) ==
    LET num_objectives == CHOOSE k \in {Len(Objs(population[i])) : i \in 1..Len(population)} :
                              \A j \in 1..Len(population) : Len(Objs(population[j])) <= k
    IN SpecialistLoop(population, [i \in 1..Len(population) |-> i], 1, num_objectives)

get_specialists(population) ==
    LET pos == SpecialistPositions(population)
    IN [k \in 1..Len(pos) |-> population[pos[k]]]

----------------------------------------------------------------------------
(* PopulationStorage.global_rerank *)

\* the generations of history with their individuals replaced by those of
\* entire_history, which holds them in the order of the generations
Unflatten(history, entire_history) ==
    [g \in 1..Len(history) |->
        SubSeq(entire_history,
               Len(Flatten(SubSeq(history, 1, g - 1))) + 1,
               Len(Flatten(SubSeq(history, 1, g))))]

\* global_rerank raises before it changes anything when there is no
\* generation, no individual, or an individual without objectives
CanRerank(st) ==
    /\ Len(st.survivors) > 0 /\ Len(st.history) > 0
    /\ Flatten(st.history) # <<>>
    /\ HasObjectives(Flatten(st.history))

\* global_rerank(storage_file_path, num_survivors=None); the functions modify
\* the individuals of history in place, and survivors[-1] and specialists[-1]
\* are then lists of these individuals
global_rerank(st, f, storage_file_path) ==
    LET entire_history == Flatten(st.history)
        num_survivors == Len(st.survivors[Len(st.survivors)])
        ranked == assign_rank_by_fitness_and_energy(
                      assign_relative_energy(
                          assign_normalized_objectives(
                              assign_fitness_by_dominance(entire_history), <<>>, <<>>)))
        specialists == get_specialists(ranked)
        best == select_survivors_by_rank(ranked, num_survivors)
        st1 == [st EXCEPT !.history = Unflatten(st.history, ranked),
                          !.survivors = SetLast(@, best),
                          !.specialists = SetLast(@, specialists)]
    IN [storage |-> st1,
        file |-> IF storage_file_path THEN save(st1, f, N_None).file ELSE f]

----------------------------------------------------------------------------
(* class PopulationAnnealing *)

SurvivalRatePct == 20     \* survival_rate = 0.2
DiversityRatePct == 5     \* diversity_rate = 0.05
FitnessRange == 2         \* fitness_range = 2

X0 == <<0>>

\* the cold-started object; its storage is PopulationStorage(...) with the same names
PopulationAnnealing(pop_size, path_length, max_iter, storage_file_path) ==
    [x0 |-> X0, pop_size |-> pop_size, path_length |-> path_length,
     max_gens |-> path_length * max_iter,
     storage_file_path |-> storage_file_path,
     normalize |-> "global",
     num_gen |-> 0, population |-> <<>>, survivors |-> <<>>, specialists |-> <<>>,
     prev_survivors |-> <<>>, prev_specialists |-> <<>>,
     min_objectives |-> <<>>, max_objectives |-> <<>>,
     count |-> 0, objectives_stored |-> FALSE,
     stepsize |-> 0, seeded_at |-> 0,
     num_survivors |-> Max(1, (pop_size * SurvivalRatePct) \div 100),
     num_diversity_survivors |-> (pop_size * DiversityRatePct) \div 100,
     fitness_range |-> FitnessRange,
     specialists_survive |-> TRUE]

\* __init__ with hot_start=True that takes up the last stored generation again
PopulationAnnealing_hot_start_LastGenAgain(f, pop_size, max_iter) ==
    IF ~f.exists \/ ~Loadable(f) \/ Cardinality(DOMAIN f.gens) = 0
    THEN [pa |-> None, storage |-> None, raised |-> TRUE]
    ELSE LET st == load(f)
             cold == PopulationAnnealing(pop_size, st.path_length, max_iter, TRUE)
             current_step_size ==
                 IF "step_size" \in DOMAIN st.attributes
                 THEN Last(st.attributes["step_size"]) ELSE None
         IN [pa |-> [cold EXCEPT
                       !.stepsize = IF current_step_size # None THEN the(current_step_size)
                                    ELSE @,
                       !.num_gen = Len(st.history) - 1,
                       !.population = Last(st.history),
                       !.survivors = Last(st.survivors),
                       !.specialists = Last(st.specialists),
                       !.min_objectives = Last(st.min_objectives),
                       !.max_objectives = Last(st.max_objectives),
                       !.count = the(st.count),
                       !.seeded_at = the(st.count),
                       !.normalize = st.normalize,
                       !.objectives_stored = TRUE],
             storage |-> st, raised |-> FALSE]

\* PopulationAnnealing.__init__ with hot_start=True and storage_file_path the
\* file f: the object and its storage, or the error when the file is not
\* there, cannot be loaded or holds no generation
PopulationAnnealing_hot_start(f, pop_size, max_iter) ==
    IF ~f.exists \/ ~Loadable(f) \/ Cardinality(DOMAIN f.gens) = 0
    THEN [pa |-> None, storage |-> None, raised |-> TRUE]
    ELSE LET st == load(f)
             cold == PopulationAnnealing(pop_size, st.path_length, max_iter, TRUE)
             current_step_size ==
                 IF "step_size" \in DOMAIN st.attributes
                 THEN Last(st.attributes["step_size"]) ELSE None
         IN [pa |-> [cold EXCEPT
                       !.stepsize = IF current_step_size # None THEN the(current_step_size)
                                    ELSE @,
                       !.num_gen = Len(st.history),
                       !.population = Last(st.history),
                       !.survivors = Last(st.survivors),
                       !.specialists = Last(st.specialists),
                       !.min_objectives = Last(st.min_objectives),
                       !.max_objectives = Last(st.max_objectives),
                       !.count = the(st.count),
                       !.seeded_at = the(st.count),
                       !.normalize = st.normalize,
                       !.objectives_stored = TRUE],
             storage |-> st, raised |-> FALSE]

\* RelativeBoundedStep.__call__ as the driver uses it.  The driver seeds one
\* RandomState at construction, so the proposal is a function of the number
\* of proposals made before it; draw is that number: the driver's count less
\* the count it was constructed with (seeded_at).
take_step(current_x, draw) ==
    [i \in 1..Len(current_x) |-> (current_x[i] + draw) % Cardinality(XVals)]

\* PopulationAnnealing.init_population
init_population(d) ==
    LET first == IF d.num_gen = 0 THEN <<Individual(d.x0, Some(d.count))>> ELSE <<>>
        count1 == d.count + Len(first)
        pop_size == d.pop_size - Len(first)
    IN [d EXCEPT
          !.population = first \o [i \in 1..pop_size |->
                                     Individual(take_step(d.x0, count1 - d.seeded_at + i - 1),
                                                Some(count1 + i - 1))],
          !.count = count1 + pop_size]

Unmark(population) == [i \in 1..Len(population) |-> [population[i] EXCEPT !.survivor = FALSE]]

\* step_survivors that keeps the step size when it reseeds the population
step_survivors_ReseedKeepsStep(d) ==
    LET d1 == [d EXCEPT !.stepsize = @ + 1]
        prev_survivors == Unmark(d.survivors)
        prev_specialists == IF d.specialists_survive THEN Unmark(d.specialists)
                            ELSE d.specialists
        group == IF d.specialists_survive THEN prev_survivors \o prev_specialists
                 ELSE prev_survivors
        group_size == Len(group)
        stepped == [d1 EXCEPT
                      !.prev_survivors = prev_survivors,
                      !.prev_specialists = prev_specialists,
                      !.population =
                          [i \in 1..d.pop_size |->
                              Individual(take_step(group[((i - 1) % group_size) + 1].x,
                                                   d.count - d.seeded_at + i - 1),
                                         Some(d.count + i - 1))],
                      !.count = @ + d.pop_size]
    IN [(IF Len(d.survivors) = 0 THEN init_population(d) ELSE stepped)
            EXCEPT !.survivors = <<>>, !.specialists = <<>>]

\* PopulationAnnealing.step_survivors
step_survivors(d) ==
    LET d1 == [d EXCEPT !.stepsize = @ + 1]
        prev_survivors == Unmark(d.survivors)
        prev_specialists == IF d.specialists_survive THEN Unmark(d.specialists)
                            ELSE d.specialists
        group == IF d.specialists_survive THEN prev_survivors \o prev_specialists
                 ELSE prev_survivors
        group_size == Len(group)
        stepped == [d1 EXCEPT
                      !.prev_survivors = prev_survivors,
                      !.prev_specialists = prev_specialists,
                      !.population =
                          [i \in 1..d.pop_size |->
                              Individual(take_step(group[((i - 1) % group_size) + 1].x,
                                                   d.count - d.seeded_at + i - 1),
                                         Some(d.count + i - 1))],
                      !.count = @ + d.pop_size]
    IN [(IF Len(d.survivors) = 0 THEN init_population(d1) ELSE stepped)
            EXCEPT !.survivors = <<>>, !.specialists = <<>>]

\* step_population that makes one individual per individual it steps from
step_population_ThisPopSize(d) ==
    LET this_pop_size == Len(d.population)
    IN IF this_pop_size = 0 THEN init_population(d)
       ELSE [d EXCEPT
               !.population =
                   [i \in 1..this_pop_size |->
                       Individual(take_step(d.population[i].x, d.count - d.seeded_at + i - 1),
                                  Some(d.count + i - 1))],
               !.count = @ + this_pop_size]

\* PopulationAnnealing.step_population
step_population(d) ==
    LET this_pop_size == Len(d.population)
    IN IF this_pop_size = 0 THEN init_population(d)
       ELSE [d EXCEPT
               !.population =
                   [i \in 1..d.pop_size |->
                       Individual(take_step(d.population[((i - 1) % this_pop_size) + 1].x,
                                            d.count - d.seeded_at + i - 1),
                                  Some(d.count + i - 1))],
               !.count = @ + d.pop_size]

\* LoopBody without the objectives_stored checks
LoopBody_NoStoredCheck(d) ==
    IF d.num_gen < d.max_gens
    THEN LET d1 == IF d.num_gen = 0 THEN init_population(d)
                   ELSE IF d.num_gen % d.path_length = 0 THEN step_survivors(d)
                   ELSE step_population(d)
         IN [pa |-> [d1 EXCEPT !.objectives_stored = FALSE],
             pc |-> "yielded",
             batch |-> <<[i \in 1..Len(d1.population) |-> d1.population[i].x],
                         [i \in 1..Len(d1.population) |-> d1.population[i].model_id]>>]
    ELSE [pa |-> d, pc |-> "done", batch |-> <<>>]

\* LoopBody with the loop test num_gen <= max_gens
LoopBody_OneMore(d) ==
    IF d.num_gen <= d.max_gens
    THEN IF d.num_gen # 0 /\ ~d.objectives_stored
         THEN [pa |-> d, pc |-> "raised", batch |-> <<>>]
         ELSE LET d1 == IF d.num_gen = 0 THEN init_population(d)
                        ELSE IF d.num_gen % d.path_length = 0 THEN step_survivors(d)
                        ELSE step_population(d)
              IN [pa |-> [d1 EXCEPT !.objectives_stored = FALSE],
                  pc |-> "yielded",
                  batch |-> <<[i \in 1..Len(d1.population) |-> d1.population[i].x],
                              [i \in 1..Len(d1.population) |-> d1.population[i].model_id]>>]
    ELSE IF ~d.objectives_stored
         THEN [pa |-> d, pc |-> "raised", batch |-> <<>>]
         ELSE [pa |-> d, pc |-> "done", batch |-> <<>>]

\* one pass of the while loop of __call__ up to its yield, or the code after
\* the loop: the object, where the generator is left, and what it yields
LoopBody(d) ==
    IF d.num_gen < d.max_gens
    THEN IF d.num_gen # 0 /\ ~d.objectives_stored
         THEN [pa |-> d, pc |-> "raised", batch |-> <<>>]
         ELSE LET d1 == IF d.num_gen = 0 THEN init_population(d)
                        ELSE IF d.num_gen % d.path_length = 0 THEN step_survivors(d)
                        ELSE step_population(d)
              IN [pa |-> [d1 EXCEPT !.objectives_stored = FALSE],
                  pc |-> "yielded",
                  batch |-> <<[i \in 1..Len(d1.population) |-> d1.population[i].x],
                              [i \in 1..Len(d1.population) |-> d1.population[i].model_id]>>]
    ELSE IF ~d.objectives_stored
         THEN [pa |-> d, pc |-> "raised", batch |-> <<>>]
         ELSE [pa |-> d, pc |-> "done", batch |-> <<>>]

\* call without num_gen += 1 after the yield
call_NoIncrement(d, at) == LoopBody(d)

\* next() on the generator of PopulationAnnealing.__call__
call(d, at) ==
    IF at = "yielded" THEN LoopBody([d EXCEPT !.num_gen = @ + 1]) ELSE LoopBody(d)

\* StoreResults that leaves the individuals it puts in failed in the
\* population too, a missing value stored as 0
StoreResults_KeepFailed(d, st, features, objectives) ==
    LET evaluated(i) ==
            /\ \A m \in 1..Len(st.objective_names) : st.objective_names[m] \in DOMAIN objectives[i]
            /\ \A m \in 1..Len(st.feature_names) : st.feature_names[m] \in DOMAIN features[i]
        value(dict, key) == IF key \in DOMAIN dict THEN dict[key] ELSE 0
        stored(i) ==
            [d.population[i] EXCEPT
                !.objectives = Some([m \in 1..Len(st.objective_names) |->
                                        value(objectives[i], st.objective_names[m])]),
                !.features = Some([m \in 1..Len(st.feature_names) |->
                                      value(features[i], st.feature_names[m])])]
        positions == [i \in 1..Len(objectives) |-> i]
        lost == SelectSeq(positions, LAMBDA i : ~evaluated(i))
        filtered_population == [k \in 1..Len(positions) |-> stored(k)]
        failed == [k \in 1..Len(lost) |-> d.population[lost[k]]]
    IN [pa |-> [d EXCEPT !.population = filtered_population,
                         !.prev_survivors = <<>>, !.prev_specialists = <<>>,
                         !.objectives_stored = TRUE],
        storage |-> append(st, filtered_population, <<>>, <<>>, d.prev_survivors,
                           d.prev_specialists, failed, <<>>, <<>>,
                           [k \in {"step_size"} |-> d.stepsize])]

\* the first loop of update_population and the append that follows it:
\* features and objectives are the lists of dicts the caller passes
StoreResults(d, st, features, objectives) ==
    LET evaluated(i) ==
            /\ \A m \in 1..Len(st.objective_names) : st.objective_names[m] \in DOMAIN objectives[i]
            /\ \A m \in 1..Len(st.feature_names) : st.feature_names[m] \in DOMAIN features[i]
        stored(i) ==
            [d.population[i] EXCEPT
                !.objectives = Some([m \in 1..Len(st.objective_names) |->
                                        objectives[i][st.objective_names[m]]]),
                !.features = Some([m \in 1..Len(st.feature_names) |->
                                      features[i][st.feature_names[m]]])]
        positions == [i \in 1..Len(objectives) |-> i]
        kept == SelectSeq(positions, evaluated)
        lost == SelectSeq(positions, LAMBDA i : ~evaluated(i))
        filtered_population == [k \in 1..Len(kept) |-> stored(kept[k])]
        failed == [k \in 1..Len(lost) |-> d.population[lost[k]]]
    IN [pa |-> [d EXCEPT !.population = filtered_population,
                         !.prev_survivors = <<>>, !.prev_specialists = <<>>,
                         !.objectives_stored = TRUE],
        storage |-> append(st, filtered_population, <<>>, <<>>, d.prev_survivors,
                           d.prev_specialists, failed, <<>>, <<>>,
                           [k \in {"step_size"} |-> d.stepsize])]

\* a candidate is an individual of the storage together with the place it
\* is stored at: the evaluation modifies the stored object itself
Candidate(list, gen, idx, ind) == [list |-> list, gen |-> gen, idx |-> idx, ind |-> ind]

\* the first position at which the object at position j of s occurs
FirstOcc(s, j) == CHOOSE k \in 1..j : s[k] = s[j] /\ \A l \in 1..(k - 1) : s[l] # s[j]

\* the survivors and specialists that get_candidates puts in front, before
\* list(set(...)) orders them.  The two lists are separate copies, so no
\* object is in both; an object that is twice in the specialists is kept once.
CarriedCandidates(d, st) ==
    LET gen == Len(st.history) + 1 - d.path_length
        survs == st.prev_survivors[gen]
        specs == st.prev_specialists[gen]
        spec_pos == SelectSeq([j \in 1..Len(specs) |-> j], LAMBDA j : FirstOcc(specs, j) = j)
    IN [i \in 1..Len(survs) |-> Candidate("prev_survivors", gen, i, survs[i])]
       \o (IF d.specialists_survive
           THEN [k \in 1..Len(spec_pos) |->
                    Candidate("prev_specialists", gen, spec_pos[k], specs[spec_pos[k]])]
           ELSE <<>>)

\* the orders list(set(candidates)) can give
CandidateOrders(d, st) == Permutations_(CarriedCandidates(d, st))

RECURSIVE BlockPopulations(_, _, _)
BlockPopulations(d, st, i) ==
    IF i > d.path_length THEN <<>>
    ELSE LET gen == Len(st.history) + 1 - i
         IN [k \in 1..Len(st.history[gen]) |-> Candidate("history", gen, k, st.history[gen][k])]
            \o BlockPopulations(d, st, i + 1)

\* get_candidates that gathers this block's populations only
get_candidates_BlockOnly(d, st, carried) == BlockPopulations(d, st, 1)

\* PopulationAnnealing.get_candidates, given the order of list(set(...))
get_candidates(d, st, carried) == carried \o BlockPopulations(d, st, 1)

\* the storage after the evaluation has modified the candidates in place
WriteBack(st, candidates, individuals) ==
    LET at(list, gen, idx) ==
            {i \in 1..Len(candidates) :
                candidates[i].list = list /\ candidates[i].gen = gen /\ candidates[i].idx = idx}
        updated(list, gen, idx, old) ==
            IF at(list, gen, idx) = {} THEN old
            ELSE individuals[CHOOSE i \in at(list, gen, idx) : TRUE]
        column(list, col, keyed) ==
            [gen \in 1..Len(col) |->
                [j \in 1..Len(col[gen]) |->
                    updated(list, gen, IF keyed THEN FirstOcc(col[gen], j) ELSE j, col[gen][j])]]
    IN [st EXCEPT !.history = column("history", @, FALSE),
                  !.prev_survivors = column("prev_survivors", @, FALSE),
                  !.prev_specialists = column("prev_specialists", @, TRUE)]

\* the candidates as the list of individuals the functions are handed
CandidateIndividuals(candidates) == [i \in 1..Len(candidates) |-> candidates[i].ind]

\* individual.survivor = True for the survivors, and for the specialists
\* when specialists_survive; survivors and specialists are positions
MarkSurvivors(d, evaluated, survivors, specialists) ==
    [i \in 1..Len(evaluated) |->
        [evaluated[i] EXCEPT !.survivor =
            \/ @
            \/ i \in Range(survivors)
            \/ (d.specialists_survive /\ i \in Range(specialists))]]

\* the driver and the storage once the block is evaluated and selected:
\* marked are the candidates as the evaluation and the marking left them
StoreSelection(d, st, candidates, edges, marked, survivors, specialists) ==
    [pa |-> [d EXCEPT !.min_objectives = edges.min, !.max_objectives = edges.max,
                      !.specialists = [k \in 1..Len(specialists) |-> marked[specialists[k]]],
                      !.survivors = [k \in 1..Len(survivors) |-> marked[survivors[k]]]],
     storage |-> [WriteBack(st, candidates, marked) EXCEPT
                     !.survivors = SetLast(@, [k \in 1..Len(survivors) |->
                                                  marked[survivors[k]]]),
                     !.specialists = SetLast(@, [k \in 1..Len(specialists) |->
                                                    marked[specialists[k]]]),
                     !.min_objectives = SetLast(@, edges.min),
                     !.max_objectives = SetLast(@, edges.max)]]

\* get_specialists and select on the evaluated candidates
SelectEvaluated(d, st, candidates, edges, evaluated, survivors, specialists) ==
    StoreSelection(d, st, candidates, edges,
                   MarkSurvivors(d, evaluated, survivors, specialists), survivors, specialists)

\* evaluate on the candidates, with the edges get_objectives_edges gave
SelectWithEdges(d, st, candidates, edges, evaluated) ==
    SelectEvaluated(d, st, candidates, edges, evaluated,
                    SelectedPositions(evaluated, d.num_survivors, d.num_diversity_survivors,
                                      d.fitness_range),
                    SpecialistPositions(evaluated))

EvaluateBlock(d, st, candidates, edges) ==
    SelectWithEdges(d, st, candidates, edges,
                    evaluate_population_annealing(CandidateIndividuals(candidates),
                                                  edges.min, edges.max))

\* the selection step of update_population, with a non-empty candidate list
SelectBlock(d, st, candidates) ==
    EvaluateBlock(d, st, candidates,
                  get_objectives_edges(CandidateIndividuals(candidates), d.min_objectives,
                                       d.max_objectives, d.normalize))

\* the selection step when there are candidates
SelectedBlock(d, st, candidates) ==
    IF Len(candidates) > 0 THEN SelectBlock(d, st, candidates) ELSE [pa |-> d, storage |-> st]

\* if self.storage_file_path is not None: self.storage.save(path, n)
Checkpoint(selected, f, n) ==
    [pa |-> selected.pa, storage |-> selected.storage,
     file |-> IF selected.pa.storage_file_path THEN save(selected.storage, f, n).file ELSE f]

\* EndOfBlock that checkpoints with save(path), the last generation only
EndOfBlock_SaveLast(d, st, f, carried) ==
    IF (d.num_gen + 1) % d.path_length = 0
    THEN Checkpoint(SelectedBlock(d, st, get_candidates(d, st, carried)), f, N_None)
    ELSE [pa |-> d, storage |-> st, file |-> f]

\* the end of update_population: the block's selection and the checkpoint
EndOfBlock(d, st, f, carried) ==
    IF (d.num_gen + 1) % d.path_length = 0
    THEN Checkpoint(SelectedBlock(d, st, get_candidates(d, st, carried)), f,
                    N_int(d.path_length))
    ELSE [pa |-> d, storage |-> st, file |-> f]

----------------------------------------------------------------------------
(* The run of a cold-started PopulationAnnealing.  The caller holds the    *)
(* generator and the object: it resumes the generator (Call) and passes    *)
(* the evaluation results of a batch (UpdatePopulation), in any order.     *)

NoStorage == None
NoPregen == None

\* op.name is the operation called last and op.results the results it was
\* given; op.yields counts the batches yielded so far and op.extra the calls
\* of update_population that did not follow a yield of their own
NoOp == [name |-> "", extra |-> 0, yields |-> 0, results |-> <<>>]

\* what the evaluation of one parameter vector returns
EvalResults ==
    {[features |-> [k \in {"f1"} |-> 0], objectives |-> [k \in {"o1"} |-> v]] : v \in ObjVals}
    \cup {[features |-> [k \in {"f1"} |-> 0], objectives |-> EmptyDict],
          [features |-> EmptyDict, objectives |-> [k \in {"o1"} |-> 0]]}

\* the evaluations a caller can have: the features and objectives are
\* computed from the parameter vector, the same way throughout a run
Evaluations == [{<<v>> : v \in XVals} -> EvalResults]

\* the storage scenario evaluates nothing
NoEvaluation == <<>>

\* the modelled run, and a run of two one-generation blocks with a larger batch
RunConfig == [pop_size |-> PopSize, path_length |-> PathLength, max_iter |-> MaxIter]
BatchConfig == [pop_size |-> BatchSize, path_length |-> 1, max_iter |-> 2]

InitWith(config) ==
    /\ pa = PopulationAnnealing(config.pop_size, config.path_length, config.max_iter, TRUE)
    /\ storage = PopulationStorage(ParamNames, FeatureNames, ObjectiveNames,
                                   config.path_length, "global")
    /\ file = NoFile
    /\ pc = "new"
    /\ batch = <<>>
    /\ pregen = NoPregen
    /\ evaluate \in Evaluations
    /\ op = NoOp

\* next(generator)
Call ==
    /\ pc \in {"new", "yielded"}
    /\ \E r \in {call(pa, pc)} :
          /\ pa' = r.pa
          /\ pc' = r.pc
          /\ batch' = r.batch
          /\ op' = [op EXCEPT !.name = "call", !.results = <<>>,
                              !.yields = IF r.pc = "yielded" THEN @ + 1 ELSE @]
    /\ UNCHANGED <<storage, file, pregen, evaluate>>

\* update_population(features, objectives) with one result per individual
\* of the current population, as the caller's evaluation computes them
UpdatePopulation ==
    /\ pc \in {"new", "yielded"}
    /\ (pc = "yielded" /\ op.name = "call") \/ op.extra < MaxExtraUpdates
    /\ \E results \in {[i \in 1..Len(pa.population) |-> evaluate[pa.population[i].x]]} :
         \E stored \in {StoreResults(pa, storage,
                                     [i \in 1..Len(results) |-> results[i].features],
                                     [i \in 1..Len(results) |-> results[i].objectives])} :
            \E carried \in (IF (pa.num_gen + 1) % pa.path_length = 0
                            THEN CandidateOrders(stored.pa, stored.storage) ELSE {<<>>}) :
               \E done \in {EndOfBlock(stored.pa, stored.storage, file, carried)} :
                  /\ pa' = done.pa
                  /\ storage' = done.storage
                  /\ file' = done.file
                  /\ op' = [op EXCEPT !.name = "update_population", !.results = results,
                                      !.extra = IF pc = "yielded" /\ op.name = "call"
                                                THEN @ ELSE @ + 1]
    /\ UNCHANGED <<pc, batch, pregen, evaluate>>

Next == Call \/ UpdatePopulation

Spec == InitWith(RunConfig) /\ [][Next]_vars

\* optimize(): for generation in param_gen_instance(): ... update_population(...)
OptimizeNext == (pc = "new" \/ op.name = "update_population") /\ Call
OptimizeUpdate == (pc = "yielded" /\ op.name = "call") /\ UpdatePopulation

NextOptimize == OptimizeNext \/ OptimizeUpdate

InitOptimize == InitWith(RunConfig) \/ InitWith(BatchConfig)

SpecOptimize == InitOptimize /\ [][NextOptimize]_vars

\* a run of two blocks of two generations with two individuals a generation,
\* where a generation can lose one of its individuals and keep the other
PairConfig == [pop_size |-> 2, path_length |-> 2, max_iter |-> 2]

SpecPair == InitWith(PairConfig) /\ [][NextOptimize]_vars

\* The run is ended once a block is checkpointed, and a new object is
\* constructed with hot_start=True on the checkpoint file and the arguments
\* of the first construction; optimize() then iterates its generator.
AnnealingHotStart ==
    /\ op.name = "update_population"
    /\ Len(storage.history) % pa.path_length = 0
    /\ \E r \in {PopulationAnnealing_hot_start(file, pa.pop_size,
                                                pa.max_gens \div pa.path_length)} :
          /\ pa' = r.pa
          /\ storage' = r.storage
          /\ pc' = IF r.raised THEN "raised" ELSE "new"
    /\ batch' = <<>>
    /\ op' = [op EXCEPT !.name = "hot_start", !.results = <<>>]
    /\ UNCHANGED <<file, pregen, evaluate>>

NextHotStart == OptimizeNext \/ OptimizeUpdate \/ AnnealingHotStart

SpecHotStart == InitOptimize /\ [][NextHotStart]_vars

----------------------------------------------------------------------------
(* Properties of the PopulationAnnealing run *)

Ids(population) == {population[i].model_id : i \in 1..Len(population)}

\* the sub-list of s at the positions that satisfy Test, in list order
AtPositions(s, Test(_)) ==
    LET pos == SelectSeq([i \in 1..Len(s) |-> i], Test)
    IN [k \in 1..Len(pos) |-> s[pos[k]]]

\* the identity of an individual: its parameter vector and model_id
Identity(population) ==
    [i \in 1..Len(population) |-> <<population[i].x, population[i].model_id>>]

\* C1: when the generator is resumed after a batch was yielded and
\* update_population was not called since that yield, it raises and yields
\* no batch, whether a generation was still to come or the last one was out.
C1_ResumeWithoutUpdateRaises ==
    [][(pc = "yielded" /\ op.name = "call" /\ op'.name = "call")
         => (pc' = "raised" /\ batch' = <<>> /\ op'.yields = op.yields)]_vars

C1_Witness == pc = "raised" /\ op.name = "call" /\ 0 < pa.num_gen /\ pa.num_gen < pa.max_gens

\* C2 as stated: for any sequence of resumptions and update_population calls
\* that raises nothing, len(storage.history) = num_gen wherever a batch is
\* yielded, and it never exceeds num_gen + 1.
C2_LockstepAnyOrder ==
    /\ (pc = "yielded" /\ op.name = "call") => Len(storage.history) = pa.num_gen
    /\ pc # "raised" => Len(storage.history) <= pa.num_gen + 1

\* C2 amended: the same, as long as every update_population call so far
\* followed a yield of its own (at most one call per yielded batch, none
\* before the first batch).
C2_LockstepInTurn ==
    op.extra = 0 =>
        /\ (pc = "yielded" /\ op.name = "call") => Len(storage.history) = pa.num_gen
        /\ Len(storage.history) <= pa.num_gen + 1

C2_Witness ==
    /\ op.extra = 0 /\ pc = "yielded" /\ op.name = "call"
    /\ pa.num_gen = PathLength /\ Len(storage.history) = PathLength

\* C3: with a caller that calls update_population once after every batch,
\* a cold-started driver never raises, yields max_iter * path_length batches
\* in all (until then it is at a yield, or not started, and the caller has a
\* next step), and ends with that many generations in storage.history.
C3_RunLength ==
    /\ pc # "raised"
    /\ op.yields <= pa.max_gens
    /\ pc # "done" => (pc = "new" \/ (pc = "yielded" /\ op.yields = pa.num_gen + 1))
    /\ pc = "done" => (op.yields = pa.max_gens /\ Len(storage.history) = pa.max_gens)

C3_Witness ==
    /\ pc = "done" /\ pa.pop_size = PopSize
    /\ op.yields = MaxIter * PathLength /\ Len(storage.history) = MaxIter * PathLength

\* C4: update_population puts in failed exactly the individuals of the batch
\* whose objectives dict lacks an objective name or whose features dict lacks
\* a feature name, keeps the others in population in their order, and
\* storage.count grows by the size of the whole batch.
Lacking(result) ==
    \/ \E m \in 1..Len(ObjectiveNames) : ObjectiveNames[m] \notin DOMAIN result.objectives
    \/ \E m \in 1..Len(FeatureNames) : FeatureNames[m] \notin DOMAIN result.features

C4_FailedPartition ==
    [][op'.name = "update_population" =>
         /\ Identity(Last(storage'.failed)) =
                Identity(AtPositions(pa.population, LAMBDA i : Lacking(op'.results[i])))
         /\ Identity(pa'.population) =
                Identity(AtPositions(pa.population, LAMBDA i : ~Lacking(op'.results[i])))
         /\ Identity(Last(storage'.history)) = Identity(pa'.population)
         /\ \A i \in 1..Len(pa'.population) : pa'.population[i].objectives # None
         /\ the(storage'.count) = the(storage.count) + Len(pa.population)]_vars

C4_Witness ==
    /\ op.name = "update_population" /\ Len(op.results) = BatchSize
    /\ Len(Last(storage.failed)) = 2 /\ Len(pa.population) = BatchSize - 2
    /\ \E i, j \in 1..Len(op.results) :
          /\ DOMAIN op.results[i].objectives = {}
          /\ DOMAIN op.results[j].features = {}
    /\ the(storage.count) = BatchSize

\* C5: no individual that was put in failed is ever among the individuals
\* the candidates are taken from, among the driver's survivors or
\* specialists, or in a survivors / specialists / prev_survivors /
\* prev_specialists list of the storage; and the run goes on after a
\* generation with failed individuals.
FailedIds == Ids(Flatten(storage.failed))

C5_FailedNeverRanked ==
    /\ \A list \in {pa.survivors, pa.specialists, pa.prev_survivors, pa.prev_specialists,
                    Flatten(storage.history), Flatten(storage.survivors),
                    Flatten(storage.specialists), Flatten(storage.prev_survivors),
                    Flatten(storage.prev_specialists)} :
          Ids(list) \cap FailedIds = {}
    /\ pc # "raised"
    /\ (op.name = "update_population" /\ Last(storage.failed) # <<>>) => ENABLED OptimizeNext

C5_Witness ==
    /\ pc = "done"
    /\ \E g \in 1..Len(storage.history) : storage.history[g] = <<>> /\ storage.failed[g] # <<>>
    /\ Last(storage.survivors) # <<>>

\* C10: between any two operations of a run that checkpoints, the file holds
\* the generations 0 .. k * path_length - 1 for some k: whole blocks, each
\* generation complete and already passed to update_population, and nothing
\* of the block in progress.
C10_FileHoldsWholeBlocks ==
    LET num == Cardinality(DOMAIN file.gens)
    IN /\ DOMAIN file.gens = 0..(num - 1)
       /\ num % pa.path_length = 0
       /\ num = (Len(storage.history) \div pa.path_length) * pa.path_length
       /\ \A g \in DOMAIN file.gens :
             /\ DOMAIN file.gens[g].groups = Range(GroupNames)
             /\ file.gens[g].count # None
             /\ Len(file.gens[g].groups["population"]) = Len(storage.history[g + 1])
             /\ Len(file.gens[g].groups["failed"]) = Len(storage.failed[g + 1])

C10_Witness ==
    /\ PathLength > 1
    /\ DOMAIN file.gens = 0..(PathLength - 1)
    /\ Len(storage.history) = PathLength + 1

\* the candidates of the block that ends with the last stored generation,
\* as the evaluation and the selection left them
FinalPool == CandidateIndividuals(get_candidates(pa, storage, CarriedCandidates(pa, storage)))

\* the individuals of the pool that are not among the selected survivors;
\* the evaluation gave every individual of the pool a rank of its own
NotSelected(pool, survivors) ==
    SelectSeq(pool, LAMBDA c : \A k \in 1..Len(survivors) : survivors[k].rank # c.rank)

C25_BatchHoldsPopSize ==
    pc = "yielded" =>
        /\ Len(batch) = 2
        /\ Len(batch[1]) = pa.pop_size
        /\ Len(batch[2]) = pa.pop_size
        /\ \A i \in 1..pa.pop_size :
              /\ Len(batch[1][i]) = Len(ParamNames)
              /\ batch[2][i] # None /\ the(batch[2][i]) \in Nat
        /\ op.name = "call" =>
              /\ Len(pa.population) = pa.pop_size
              /\ \A i \in 1..pa.pop_size :
                    /\ batch[1][i] = pa.population[i].x
                    /\ batch[2][i] = pa.population[i].model_id

\* a population-step generation yielded after a generation that lost one
\* of its two individuals
C25_Witness ==
    /\ pc = "yielded" /\ op.name = "call"
    /\ pa.num_gen % pa.path_length # 0
    /\ Len(Last(storage.failed)) = 1 /\ Len(Last(storage.history)) = 1
    /\ Len(batch[1]) = 2

\* the generator has just produced a survivor-step generation
SurvivorStepProduced ==
    /\ op'.name = "call" /\ pc' = "yielded"
    /\ pa'.num_gen > 0 /\ pa'.num_gen % pa'.path_length = 0

\* the step size recorded for generation g is floor(g / path_length)
RecordedStepSizes ==
    /\ "step_size" \in DOMAIN storage.attributes \/ Len(storage.history) = 0
    /\ \A g \in 1..Len(storage.history) :
          storage.attributes["step_size"][g] = Some((g - 1) \div pa.path_length)

\* C26: the step size of PopulationAnnealing, held as the number of times
\* initial_step_size was multiplied by adaptive_step_factor, goes up by
\* exactly one when a survivor-step generation is produced, with or without
\* survivors, and is left as it is by every other step; in a cold-started
\* run the step size recorded for generation g is floor(g / path_length).
C26_StepSizePerBlock ==
    [][/\ pa'.stepsize = pa.stepsize + (IF SurvivorStepProduced THEN 1 ELSE 0)
       /\ RecordedStepSizes']_vars

\* the run is over, its first block left no survivors, and the generations
\* of the second block were recorded with the step size multiplied once
C26_Witness ==
    /\ pc = "done" /\ pa.path_length = PathLength /\ pa.path_length > 1
    /\ Len(storage.history) = pa.max_gens
    /\ Len(storage.survivors[PathLength]) = 0
    /\ storage.attributes["step_size"][PathLength + 1] = Some(1)
    /\ storage.attributes["step_size"][PathLength] = Some(0)

\* update_population has just closed a block
BlockClosed ==
    /\ op.name = "update_population"
    /\ Len(storage.history) > 0
    /\ Len(storage.history) % pa.path_length = 0

\* C27: the candidate pool gathered at the end of a block holds no
\* individual twice: no two positions of the pool have the same model_id,
\* also when an individual was both a survivor and a specialist of the
\* previous block.
C27_PoolWithoutDuplicates ==
    BlockClosed =>
        \A i, j \in 1..Len(FinalPool) :
            FinalPool[i].model_id = FinalPool[j].model_id => i = j

\* the generations that end a block whose selection is recorded
ClosedBlocks == {g \in 1..Len(storage.history) : g % pa.path_length = 0}

\* the lowest value of objective m among the individuals of a list
BestOf(population, m) ==
    CHOOSE v \in {Objs(population[i])[m] : i \in 1..Len(population)} :
        \A i \in 1..Len(population) : v <= Objs(population[i])[m]

\* C28: with specialists_survive, once a block has selected specialists
\* every later block selects specialists too, and for every objective m the
\* lowest value of objective m among them is not greater than it was among
\* the specialists of the earlier block, whatever evaluations failed.
C28_SpecialistsNeverWorse ==
    pa.specialists_survive =>
        \A g1, g2 \in ClosedBlocks :
            (g1 < g2 /\ Len(storage.specialists[g1]) > 0) =>
                /\ Len(storage.specialists[g2]) > 0
                /\ \A m \in 1..Len(storage.objective_names) :
                      BestOf(storage.specialists[g2], m) <= BestOf(storage.specialists[g1], m)

\* the second block evaluated an individual that is worse than the
\* specialist of the first block, and selected as specialist an individual
\* created in the first block
C28_Witness ==
    /\ pa.specialists_survive /\ pa.path_length = PathLength
    /\ Len(storage.history) = 2 * PathLength
    /\ Len(storage.specialists[PathLength]) > 0
    /\ \E g \in (PathLength + 1)..(2 * PathLength) : \E i \in 1..Len(storage.history[g]) :
          Objs(storage.history[g][i])[1] > BestOf(storage.specialists[PathLength], 1)
    /\ \E i \in 1..Len(storage.specialists[2 * PathLength]) :
          the(storage.specialists[2 * PathLength][i].model_id) < PathLength * pa.pop_size

\* the hot-started object is in the state the object of the run that went
\* on would be in when its generator is resumed: at the top of the loop
\* with num_gen = k * path_length
SameDriverState ==
    /\ pc' = "new"
    /\ pa'.num_gen = pa.num_gen + 1
    /\ pa'.num_gen = Len(storage.history)
    /\ pa'.stepsize = pa.stepsize
    /\ pa'.survivors = pa.survivors
    /\ pa'.specialists = pa.specialists
    /\ pa'.min_objectives = pa.min_objectives
    /\ pa'.max_objectives = pa.max_objectives
    /\ pa'.count = pa.count
    /\ pa'.objectives_stored = pa.objectives_stored
    /\ pa'.max_gens = pa.max_gens /\ pa'.path_length = pa.path_length

\* C29: a PopulationAnnealing object hot-started from the file checkpointed
\* at the end of block k has num_gen = k * path_length and the step size,
\* survivors, specialists, objective bounds and count of the run it takes
\* up; the generator of either object yields the generation that follows
\* the stored ones, of the kind its index gives (the step size goes up at
\* survivor steps only), no generation group of the file is written again,
\* and the run ends with max_iter * path_length generations in storage and
\* in the file, each yielded once.
C29_HotStartTakesUpRun ==
    [][/\ op'.name = "hot_start" => SameDriverState
       /\ op'.name # "hot_start" =>
             pa'.stepsize = pa.stepsize + (IF SurvivorStepProduced THEN 1 ELSE 0)
       /\ (op'.name = "call" /\ pc' = "yielded") =>
             /\ pa'.num_gen = Len(storage.history)
             /\ op'.yields = pa'.num_gen + 1
       /\ \A g \in DOMAIN file.gens : g \in DOMAIN file'.gens /\ file'.gens[g] = file.gens[g]
       /\ RecordedStepSizes'
       /\ pc' \in {"new", "yielded", "done"}
       /\ pc' = "done" =>
             /\ Len(storage'.history) = pa'.max_gens
             /\ DOMAIN file'.gens = 0..(pa'.max_gens - 1)
             /\ op'.yields = pa'.max_gens]_vars

\* a run that was hot-started after its first block, and whose second block
\* made a survivor step from the survivors read from the file, is over
C29_Witness ==
    /\ pc = "done" /\ pa.path_length = PathLength
    /\ pa.seeded_at = PathLength * pa.pop_size
    /\ pa.count > pa.seeded_at
    /\ Len(storage.prev_survivors[PathLength + 1]) > 0
    /\ Len(storage.history) = pa.max_gens

----------------------------------------------------------------------------
(* class Pregenerated: construction with hot_start=True on a checkpoint    *)
(* file, with its check for a generation that was not saved to the end     *)

UserSuppliedPopSize == 50    \* pop_size=50

\* __init__ up to the call of corruption(), st the storage loaded from the file
Pregenerated(st, num_points) ==
    [hot_start |-> TRUE, num_points |-> num_points,
     user_supplied_pop_size |-> UserSuppliedPopSize,
     population |-> Last(st.history), survivors |-> Last(st.survivors),
     specialists |-> Last(st.specialists),
     min_objectives |-> Last(st.min_objectives), max_objectives |-> Last(st.max_objectives),
     normalize |-> st.normalize, objectives_stored |-> TRUE,
     pop_size |-> Len(st.history[1]), curr_iter |-> Len(st.history),
     start_iter |-> None, max_iter |-> None, num_survivors |-> None,
     prev_survivors |-> <<>>, prev_specialists |-> <<>>]

\* offset of corruption()
Offset(st) == Len(Flatten(st.history)) + Len(Flatten(st.failed))

\* last_gen of corruption()
LastGen(offset, pop_size) ==
    LET last_gen == offset \div pop_size
    IN IF last_gen # 0 /\ offset % last_gen = 0 THEN last_gen - 1 ELSE last_gen

\* Pregenerated.handle_possible_corruption
handle_possible_corruption(d, st, f, last_gen) ==
    LET unchanged == [pregen |-> d, storage |-> st, file |-> f, corrupt |-> FALSE]
        f1 == [f EXCEPT !.gens = [g \in DOMAIN f.gens \ {last_gen} |-> f.gens[g]]]
        st1 == [st EXCEPT !.history = DelLast(@),
                          !.survivors = DelLast(@),
                          !.specialists = DelLast(@),
                          !.min_objectives = DelLast(@),
                          !.max_objectives = DelLast(@),
                          !.count = Some(last_gen * Len(DelLast(st.history)[1]))]
        d1 == IF last_gen # 0
              THEN [d EXCEPT !.population = Last(st1.history),
                             !.survivors = Last(st1.survivors),
                             !.specialists = Last(st1.specialists),
                             !.min_objectives = Last(st1.min_objectives),
                             !.max_objectives = Last(st1.max_objectives)]
              ELSE [d EXCEPT !.population = <<>>, !.survivors = <<>>, !.specialists = <<>>,
                             !.min_objectives = <<>>, !.max_objectives = <<>>,
                             !.objectives_stored = FALSE,
                             !.pop_size = d.user_supplied_pop_size]
    IN IF last_gen \notin DOMAIN f.gens
       THEN unchanged @@ [raised |-> TRUE]                      \* KeyError
       ELSE IF \A i \in 1..Len(GroupNames) : GroupNames[i] \in DOMAIN f.gens[last_gen].groups
       THEN unchanged @@ [raised |-> FALSE]
       ELSE IF "population" \notin DOMAIN f.gens[last_gen].groups
       THEN [unchanged EXCEPT !.file = f1] @@ [raised |-> FALSE]
       ELSE IF Len(st.history) < 2
       THEN unchanged @@ [raised |-> TRUE]                      \* IndexError at history[0]
       ELSE [pregen |-> d1, storage |-> st1, file |-> f1, corrupt |-> TRUE, raised |-> FALSE]

\* Pregenerated.get_max_iter
get_max_iter(num_points, pop_size) ==
    (num_points \div pop_size) + (IF num_points % pop_size # 0 THEN 1 ELSE 0)

\* Pregenerated(hot_start=True, storage_file_path=...): the object, its storage
\* and the file it leaves, or raised when the construction raises
hot_start(f, num_points) ==
    LET failed == [pregen |-> NoPregen, storage |-> NoStorage, file |-> f,
                   corrupt |-> FALSE, raised |-> TRUE]
    IN IF ~Loadable(f) \/ Cardinality(DOMAIN f.gens) = 0 THEN failed
       ELSE LET st == load(f)
                d == Pregenerated(st, num_points)
                offset == Offset(st)
            IN IF offset > num_points \/ d.pop_size = 0 THEN failed
               ELSE LET r == IF offset > 0
                             THEN handle_possible_corruption(d, st, f,
                                                             LastGen(offset, d.pop_size))
                             ELSE [pregen |-> d, storage |-> st, file |-> f,
                                   corrupt |-> FALSE, raised |-> FALSE]
                        curr_iter == IF r.corrupt THEN r.pregen.curr_iter - 1
                                     ELSE r.pregen.curr_iter
                    IN IF r.raised THEN failed
                       ELSE [r EXCEPT !.pregen =
                                [r.pregen EXCEPT
                                    !.curr_iter = curr_iter,
                                    !.start_iter = Some(curr_iter),
                                    !.max_iter = Some(get_max_iter(num_points, r.pregen.pop_size)),
                                    !.num_survivors =
                                        Some(Max(1, (r.pregen.pop_size * SurvivalRatePct)
                                                    \div 100))]]

----------------------------------------------------------------------------
(* class Sobol: construction.  params_empty tells whether the parameter    *)
(* file is absent; a parameter file that exists holds num_points rows.     *)

\* generate_sobol_seq: saltelli.sample gives n * (2d + 2) rows
generate_sobol_seq(n, param_names) == n * (2 * Len(param_names) + 2)

\* if hot_start and storage_empty or hot_start: raise RuntimeError
Sobol_HotStartRefused(with_hot_start, storage_empty) == (with_hot_start /\ storage_empty) \/ with_hot_start

\* Sobol(param_names, feature_names, objective_names, hot_start=hot_start,
\* storage_file_path=..., param_file_path=..., num_models=num_models,
\* pop_size=pop_size): the object and its storage, or raised when the
\* construction raises
Sobol(f, with_hot_start, params_empty, num_models, num_points, pop_size) ==
    LET failed == [pregen |-> NoPregen, storage |-> NoStorage, file |-> f, raised |-> TRUE]
        user_supplied_pop_size == Min(num_models, pop_size)
        storage_empty == ~f.exists
        n == num_models \div (2 * Len(ParamNames) + 2)
        this_num_points == IF params_empty THEN generate_sobol_seq(n, ParamNames)
                           ELSE num_points
        fresh == [hot_start |-> with_hot_start, num_points |-> this_num_points,
                  user_supplied_pop_size |-> user_supplied_pop_size,
                  population |-> <<>>, survivors |-> <<>>, specialists |-> <<>>,
                  min_objectives |-> <<>>, max_objectives |-> <<>>,
                  normalize |-> "global", objectives_stored |-> FALSE,
                  pop_size |-> user_supplied_pop_size, curr_gen |-> 0,
                  start_iter |-> Some(0),
                  max_iter |-> Some(get_max_iter(this_num_points, user_supplied_pop_size)),
                  num_survivors |->
                      Some(Max(1, (user_supplied_pop_size * SurvivalRatePct) \div 100)),
                  prev_survivors |-> <<>>, prev_specialists |-> <<>>, n |-> n]
    IN IF Sobol_HotStartRefused(with_hot_start, storage_empty) THEN failed     \* RuntimeError
       ELSE IF ~storage_empty /\ ~Loadable(f) THEN failed                 \* load raises
       ELSE IF ~storage_empty /\ Len(load(f).history) # 0
       THEN \* self.n is not set: generate_sobol_seq(config_file_path, self.n, ...)
            \* raises AttributeError; with a parameter file, corruption() raises
            \* RuntimeError for offset != 0 and ZeroDivisionError for pop_size 0
            failed
       ELSE IF num_models < this_num_points THEN failed                   \* RuntimeError
       ELSE [pregen |-> fresh,
             storage |-> [PopulationStorage(ParamNames, FeatureNames, ObjectiveNames, 1,
                                            "global") EXCEPT !.count = Some(0)],
             file |-> f, raised |-> FALSE]

----------------------------------------------------------------------------
(* The run of a Pregenerated object: Pregenerated.__call__ and             *)
(* Pregenerated.update_population, which Sobol inherits                    *)

\* load_pregen: the matrix of the parameter file, row j at position j + 1
pregen_params(num_points) == [j \in 1..num_points |-> <<(j - 1) % Cardinality(XVals)>>]

\* one pass of the for loop of __call__ up to its yield, i the loop variable
Pregenerated_LoopBody(d, i) ==
    IF i < the(d.max_iter)
    THEN LET lo == i * d.pop_size
             hi == Min((i + 1) * d.pop_size, d.num_points)
             population == [k \in 1..(hi - lo) |->
                               Individual(pregen_params(d.num_points)[lo + k], None)]
             d1 == DictSet(DictSet(d, "curr_iter", i), "curr_gid_range", <<lo, hi>>)
         IN [pregen |-> [d1 EXCEPT !.population = population,
                                   !.prev_survivors = d.survivors,
                                   !.prev_specialists = d.specialists],
             pc |-> "yielded",
             batch |-> [k \in 1..Len(population) |-> population[k].x]]
    ELSE [pregen |-> d, pc |-> "done", batch |-> <<>>]

\* next() on the generator of Pregenerated.__call__
Pregenerated_call(d, at) ==
    IF at = "yielded" THEN Pregenerated_LoopBody(d, d.curr_iter + 1)
    ELSE Pregenerated_LoopBody(d, the(d.start_iter))

\* Pregenerated.get_candidates: the survivors and specialists stored with
\* the last generation and its population, the first individual of each x
Pregenerated_get_candidates(st) ==
    LET gen == Len(st.history)
        survs == st.prev_survivors[gen]
        specs == st.prev_specialists[gen]
        hist == st.history[gen]
        candidates ==
            [i \in 1..Len(survs) |-> Candidate("prev_survivors", gen, i, survs[i])]
            \o [i \in 1..Len(specs) |->
                    Candidate("prev_specialists", gen, FirstOcc(specs, i), specs[i])]
            \o [i \in 1..Len(hist) |-> Candidate("history", gen, i, hist[i])]
        first(i) == \A k \in 1..(i - 1) : candidates[k].ind.x # candidates[i].ind.x
        kept == SelectSeq([i \in 1..Len(candidates) |-> i], first)
    IN [k \in 1..Len(kept) |-> candidates[kept[k]]]

\* what evaluate, get_specialists and select read of the object: select is
\* called with num_survivors and fitness_range, specialists_survive=True
SelectionArgs(d) ==
    [min_objectives |-> d.min_objectives, max_objectives |-> d.max_objectives,
     normalize |-> d.normalize, survivors |-> d.survivors, specialists |-> d.specialists,
     num_survivors |-> the(d.num_survivors), num_diversity_survivors |-> 0,
     fitness_range |-> FitnessRange, specialists_survive |-> TRUE]

\* Pregenerated.update_population: features and objectives are the lists of
\* dicts the caller passes
Pregenerated_update_population(d, st, f, features, objectives) ==
    LET evaluated(i) ==
            /\ \A m \in 1..Len(st.objective_names) : st.objective_names[m] \in DOMAIN objectives[i]
            /\ \A m \in 1..Len(st.feature_names) : st.feature_names[m] \in DOMAIN features[i]
        stored(i) ==
            [d.population[i] EXCEPT
                !.objectives = Some([m \in 1..Len(st.objective_names) |->
                                        objectives[i][st.objective_names[m]]]),
                !.features = Some([m \in 1..Len(st.feature_names) |->
                                      features[i][st.feature_names[m]]])]
        positions == [i \in 1..Len(objectives) |-> i]
        kept == SelectSeq(positions, evaluated)
        lost == SelectSeq(positions, LAMBDA i : ~evaluated(i))
        filtered_population == [k \in 1..Len(kept) |-> stored(kept[k])]
        failed == [k \in 1..Len(lost) |-> d.population[lost[k]]]
        st1 == append(st, filtered_population, <<>>, <<>>, d.prev_survivors,
                      d.prev_specialists, failed, <<>>, <<>>, EmptyDict)
        d1 == [d EXCEPT !.population = filtered_population,
                        !.prev_survivors = <<>>, !.prev_specialists = <<>>,
                        !.objectives_stored = TRUE]
        selected == SelectedBlock(SelectionArgs(d1), st1, Pregenerated_get_candidates(st1))
    IN IF st.count = None
       THEN [pregen |-> d, storage |-> append_without_count(st, filtered_population, failed),
             file |-> f, raised |-> TRUE]                       \* AttributeError in append
       ELSE [pregen |-> [d1 EXCEPT !.min_objectives = selected.pa.min_objectives,
                                   !.max_objectives = selected.pa.max_objectives,
                                   !.specialists = selected.pa.specialists,
                                   !.survivors = selected.pa.survivors],
             storage |-> selected.storage,
             file |-> save(selected.storage, f, N_None).file,
             raised |-> FALSE]

\* A run of Sobol(pop_size=SlicePopSize, num_models=NumModels) without a
\* checkpoint file, with or without a parameter file, driven as optimize()
\* drives it; after a generation is recorded the run can be ended and taken
\* up by Pregenerated(hot_start=True) on the checkpoint and parameter files.
InitPregen ==
    /\ \E params_empty \in BOOLEAN :
          \E r \in {Sobol(NoFile, FALSE, params_empty, NumModels, NumPoints, SlicePopSize)} :
             /\ ~r.raised
             /\ pregen = r.pregen
             /\ storage = r.storage
             /\ file = r.file
    /\ pa = PopulationAnnealing(PopSize, PathLength, MaxIter, TRUE)
    /\ pc = "new"
    /\ batch = <<>>
    /\ evaluate \in Evaluations
    /\ op = NoOp

\* next(generator)
PregenCall ==
    /\ pc = "new" \/ (pc = "yielded" /\ op.name = "update_population")
    /\ \E r \in {Pregenerated_call(pregen, pc)} :
          /\ pregen' = r.pregen
          /\ pc' = r.pc
          /\ batch' = r.batch
          /\ op' = [op EXCEPT !.name = "call", !.results = <<>>,
                              !.yields = IF r.pc = "yielded" THEN @ + 1 ELSE @]
    /\ UNCHANGED <<pa, storage, file, evaluate>>

\* update_population(features, objectives) with the results of the batch
PregenUpdate ==
    /\ pc = "yielded" /\ op.name = "call"
    /\ \E results \in {[i \in 1..Len(pregen.population) |-> evaluate[pregen.population[i].x]]} :
         \E r \in {Pregenerated_update_population(
                       pregen, storage, file,
                       [i \in 1..Len(results) |-> results[i].features],
                       [i \in 1..Len(results) |-> results[i].objectives])} :
            /\ pregen' = r.pregen
            /\ storage' = r.storage
            /\ file' = r.file
            /\ pc' = IF r.raised THEN "raised" ELSE pc
            /\ op' = [op EXCEPT !.name = "update_population", !.results = results]
    /\ UNCHANGED <<pa, batch, evaluate>>

\* Pregenerated(hot_start=True, storage_file_path=..., param_file_path=...)
PregenHotStart ==
    /\ op.name = "update_population"
    /\ pc = "yielded"
    /\ \E r \in {hot_start(file, pregen.num_points)} :
          IF r.raised
          THEN /\ pc' = "raised"
               /\ UNCHANGED <<pregen, storage, file>>
          ELSE /\ pc' = "new"
               /\ pregen' = r.pregen
               /\ storage' = r.storage
               /\ file' = r.file
    /\ batch' = <<>>
    /\ op' = [op EXCEPT !.name = "hot_start", !.results = <<>>]
    /\ UNCHANGED <<pa, evaluate>>

NextPregen == PregenCall \/ PregenUpdate \/ PregenHotStart

SpecPregen == InitPregen /\ [][NextPregen]_vars

----------------------------------------------------------------------------
(* Properties of the drivers' runs *)

\* the rows lo .. hi - 1 of the parameter matrix
Rows(num_points, lo, hi) == [k \in 1..(hi - lo) |-> pregen_params(num_points)[lo + k]]

\* C30: every batch Pregenerated yields is the slice of the matrix that
\* starts at the first row not recorded in storage (as evaluated or as
\* failed) and holds pop_size rows, or the rows that are left; the generator
\* ends only when every row is recorded; and a hot start on the checkpoint
\* gives an object that goes on this way, whether or not individuals of
\* earlier generations failed.
C30_RowsYieldedOnce ==
    [][/\ (op'.name = "call" /\ pc' = "yielded") =>
             LET lo == Offset(storage)
                 hi == Min(lo + SlicePopSize, pregen.num_points)
             IN /\ pregen'.curr_gid_range = <<lo, hi>>
                /\ batch' = Rows(pregen.num_points, lo, hi)
       /\ (op'.name = "call" /\ pc' = "done") => Offset(storage) = pregen.num_points
       /\ op'.name = "hot_start" => pc' # "raised"]_vars

\* the population of the driver that runs
CurrentPopulation == IF pregen # NoPregen THEN pregen.population ELSE pa.population

\* C24: every individual of a batch a driver has just yielded has an
\* integer model_id; the model_ids of the batch increase with the position
\* and are greater than the model_id of every individual recorded in
\* storage, so no two individuals created in a run, a hot start included,
\* have the same model_id.
C24_ModelIdsUniqueIncreasing ==
    (pc = "yielded" /\ op.name = "call") =>
        LET population == CurrentPopulation
            recorded == Flatten(storage.history) \o Flatten(storage.failed)
        IN /\ \A i \in 1..Len(population) : population[i].model_id # None
           /\ \A i \in 1..Len(recorded) : recorded[i].model_id # None
           /\ \A i, j \in 1..Len(population) :
                 i < j => the(population[i].model_id) < the(population[j].model_id)
           /\ \A i \in 1..Len(recorded) : \A j \in 1..Len(population) :
                 the(recorded[i].model_id) < the(population[j].model_id)

----------------------------------------------------------------------------
(* Operations on a PopulationStorage and its checkpoint file: append with  *)
(* or without a named attribute, save, a save(path) that the end of the    *)
(* process cuts short, global_rerank, PopulationStorage(file_path=...) and *)
(* the hot start of Pregenerated.                                          *)

\* op.n is the n given to save, op.kwargs the attributes given to append,
\* op.raised whether the operation raised, and op.aliased whether survivors
\* and specialists hold the objects of history (after global_rerank);
\* op.loads counts the objects built from the file
StorageOp == [name |-> "", n |-> N_None, kwargs |-> EmptyDict, raised |-> FALSE,
              aliased |-> FALSE, loads |-> 0]

\* an evaluated individual
Evaluated(x, objective) ==
    [Individual(x, None) EXCEPT !.features = Some(<<0>>), !.objectives = Some(<<objective>>)]

\* the generations given to append
AppendInputs ==
    {[population |-> <<Evaluated(<<0>>, 0)>>, failed |-> <<>>, kwargs |-> EmptyDict],
     [population |-> <<Evaluated(<<1>>, 1), Evaluated(<<0>>, 0)>>, failed |-> <<>>,
      kwargs |-> [k \in {"step_size"} |-> 1]],
     [population |-> <<Evaluated(<<0>>, 1)>>, failed |-> <<Individual(<<1>>, None)>>,
      kwargs |-> [k \in {"step_size"} |-> 1]]}

\* the n given to save
SaveArgs == {N_None, N_all, N_int(2), N_other}

\* the number of subgroups of the generation group that were written when
\* the process ended: none, population only, all but failed
InterruptPoints == {0, 1, 5}

\* an object on which append raised is not followed further
Usable(st) == st # NoStorage /\ ~(st.count = None /\ Len(st.history) > 0)

InitStorage ==
    /\ pa = PopulationAnnealing(PopSize, PathLength, MaxIter, TRUE)
    /\ storage = PopulationStorage(ParamNames, FeatureNames, ObjectiveNames, PathLength, "global")
    /\ file = NoFile
    /\ pc = "new"
    /\ batch = <<>>
    /\ pregen = NoPregen
    /\ evaluate = NoEvaluation
    /\ op = StorageOp

\* storage.append(population, failed=failed, **kwargs)
StorageAppend ==
    /\ Usable(storage)
    /\ Len(storage.history) < MaxStoredGens
    /\ \E inp \in AppendInputs :
         /\ storage' = IF storage.count = None
                       THEN append_without_count(storage, inp.population, inp.failed)
                       ELSE append(storage, inp.population, <<>>, <<>>, <<>>, <<>>, inp.failed,
                                   <<>>, <<>>, inp.kwargs)
         /\ op' = [op EXCEPT !.name = "append", !.n = N_None, !.kwargs = inp.kwargs,
                             !.raised = (storage.count = None)]
    /\ UNCHANGED <<pa, file, pc, batch, evaluate, pregen>>

\* storage.save(path, n)
StorageSave ==
    /\ Usable(storage)
    /\ \E n \in SaveArgs :
         LET r == save(storage, file, n)
         IN /\ file' = r.file
            /\ op' = [op EXCEPT !.name = "save", !.n = n, !.kwargs = EmptyDict,
                                !.raised = r.raised]
    /\ UNCHANGED <<pa, storage, pc, batch, evaluate, pregen>>

\* storage.save(path) for the last generation, the process ending while the
\* generation group is written; the objects in memory are gone with it
InterruptedSave ==
    /\ Usable(storage)
    /\ Len(storage.history) > 0
    /\ (Len(storage.history) - 1) \notin DOMAIN file.gens
    /\ AttributesIndexable(storage, Len(storage.history) - 1)
    /\ \E num_groups \in InterruptPoints :
         file' = [WithFileAttrs(storage, OpenFile(file, OpenMode(N_None))) EXCEPT
                     !.gens = DictSet(@, Len(storage.history) - 1,
                                      SavedGroup(storage, Len(storage.history) - 1, num_groups))]
    /\ storage' = NoStorage
    /\ pregen' = NoPregen
    /\ op' = [StorageOp EXCEPT !.name = "killed", !.loads = op.loads]
    /\ UNCHANGED <<pa, pc, batch, evaluate>>

\* storage = PopulationStorage(file_path=path)
StorageLoad ==
    /\ file.exists
    /\ op.loads < MaxLoads
    /\ IF Loadable(file)
       THEN /\ storage' = load(file)
            /\ op' = [StorageOp EXCEPT !.name = "load", !.loads = op.loads + 1]
       ELSE /\ storage' = storage
            /\ op' = [op EXCEPT !.name = "load", !.n = N_None, !.kwargs = EmptyDict,
                                !.raised = TRUE, !.loads = @ + 1]
    /\ UNCHANGED <<pa, file, pc, batch, evaluate, pregen>>

\* storage.global_rerank(storage_file_path), once on an object
StorageRerank ==
    /\ Usable(storage)
    /\ ~op.aliased
    /\ CanRerank(storage)
    /\ \E storage_file_path \in BOOLEAN :
         LET r == global_rerank(storage, file, storage_file_path)
         IN /\ storage' = r.storage
            /\ file' = r.file
    /\ op' = [StorageOp EXCEPT !.name = "global_rerank", !.aliased = TRUE, !.loads = op.loads]
    /\ UNCHANGED <<pa, pc, batch, evaluate, pregen>>

\* Pregenerated(hot_start=True, storage_file_path=path, ...); storage is then
\* the storage of the new object
StorageHotStart ==
    /\ file.exists
    /\ op.loads < MaxLoads
    /\ LET r == hot_start(file, NumPoints)
       IN IF r.raised
          THEN /\ UNCHANGED <<storage, file, pregen>>
               /\ op' = [op EXCEPT !.name = "hot_start", !.n = N_None, !.kwargs = EmptyDict,
                                   !.raised = TRUE, !.loads = @ + 1]
          ELSE /\ storage' = r.storage
               /\ file' = r.file
               /\ pregen' = r.pregen
               /\ op' = [StorageOp EXCEPT !.name = "hot_start", !.loads = op.loads + 1]
    /\ UNCHANGED <<pa, pc, batch, evaluate>>

\* Sobol(hot_start=..., storage_file_path=path, param_file_path=...,
\* num_models=NumModels); storage is then the storage of the new object
StorageSobol ==
    /\ op.loads < MaxLoads
    /\ \E with_hot_start \in BOOLEAN, params_empty \in BOOLEAN :
         LET r == Sobol(file, with_hot_start, params_empty, NumModels, NumPoints,
                        UserSuppliedPopSize)
         IN IF r.raised
            THEN /\ UNCHANGED <<storage, file, pregen>>
                 /\ op' = [op EXCEPT !.name = "Sobol", !.n = N_None,
                                     !.kwargs = [k \in {"hot_start", "params_empty"} |->
                                                    IF k = "hot_start" THEN with_hot_start
                                                    ELSE params_empty],
                                     !.raised = TRUE, !.loads = @ + 1]
            ELSE /\ storage' = r.storage
                 /\ file' = r.file
                 /\ pregen' = r.pregen
                 /\ op' = [StorageOp EXCEPT !.name = "Sobol",
                                            !.kwargs = [k \in {"hot_start", "params_empty"} |->
                                                           IF k = "hot_start" THEN with_hot_start
                                                           ELSE params_empty],
                                            !.loads = op.loads + 1]
    /\ UNCHANGED <<pa, pc, batch, evaluate>>

NextStorage ==
    \/ StorageAppend
    \/ StorageSave
    \/ InterruptedSave
    \/ StorageLoad
    \/ StorageRerank
    \/ StorageHotStart
    \/ StorageSobol

SpecStorage == InitStorage /\ [][NextStorage]_vars

----------------------------------------------------------------------------
(* Properties of PopulationStorage and its checkpoint file *)

\* the eight per-generation lists of a storage
GenerationLists(st) ==
    <<st.history, st.survivors, st.specialists, st.prev_survivors, st.prev_specialists,
      st.failed, st.min_objectives, st.max_objectives>>

\* C6: after any sequence of operations on a PopulationStorage that returned
\* (append, load, global_rerank, the hot-start repair of Pregenerated), the
\* lists history, survivors, specialists, prev_survivors, prev_specialists,
\* failed, min_objectives and max_objectives all have the same length, the
\* number of generations recorded.
C6_ListsSameLength ==
    (storage # NoStorage /\ ~op.raised) =>
        \A i \in 1..Len(GenerationLists(storage)) :
            Len(GenerationLists(storage)[i]) = Len(storage.history)

\* every list of attributes has the length of history
AttributesComplete(st) ==
    \A k \in DOMAIN st.attributes : Len(st.attributes[k]) = Len(st.history)

\* C7: an append that finds every attribute list as long as history (as on
\* a new storage, which has none) leaves every attribute list as long as
\* history, its last entry the value supplied, or the null marker when the
\* attribute was not supplied; so after any sequence of appends every list
\* has length len(history), the generations before the first use of an
\* attribute included.
C7_AttributesBackFilled ==
    [][(op'.name = "append" /\ ~op'.raised /\ AttributesComplete(storage)) =>
          /\ AttributesComplete(storage')
          /\ \A k \in DOMAIN storage'.attributes :
                Last(storage'.attributes[k]) =
                    IF k \in DOMAIN op'.kwargs THEN Some(op'.kwargs[k]) ELSE None]_vars

\* the x vectors of every generation, in order
XVectors(st) == [g \in 1..Len(st.history) |->
                    [i \in 1..Len(st.history[g]) |-> st.history[g][i].x]]

\* C8: save(path, n='all') followed by PopulationStorage(file_path=path)
\* gives a storage with the same names, the same number of generations and,
\* for every generation, the same population size and x vectors in order.
C8_RoundTrip ==
    [][(op.name = "save" /\ op.n = N_all /\ op'.name = "load") =>
          /\ ~op.raised /\ ~op'.raised
          /\ storage'.param_names = storage.param_names
          /\ storage'.feature_names = storage.feature_names
          /\ storage'.objective_names = storage.objective_names
          /\ Len(storage'.history) = Len(storage.history)
          /\ XVectors(storage') = XVectors(storage)]_vars

\* what a save step leaves of the generation groups the file held
KeepsGroups ==
    \A g \in DOMAIN file.gens : g \in DOMAIN file'.gens /\ file'.gens[g] = file.gens[g]

\* the group save writes for generation g: the whole group, or what is
\* left of it when an attribute list is too short
WrittenGroup(st, g) ==
    IF AttributesIndexable(st, g) THEN SavedGroup(st, g, Len(GroupNames)) ELSE BrokenGroup(st, g)

\* the generation groups a save step added are generations of the storage
AddsAbsentOnly ==
    \A g \in DOMAIN file'.gens \ DOMAIN file.gens :
        /\ g \in 0..(Len(storage.history) - 1)
        /\ file'.gens[g] = WrittenGroup(storage, g)

\* C9 as stated: for every n, save leaves every generation group of the file
\* in place and unchanged, and only adds generations that are absent.
C9_SaveAdditive ==
    [][op'.name = "save" => (KeepsGroups /\ AddsAbsentOnly)]_vars

\* C9 amended: the same for every n other than 'all'; with n = 'all' the
\* file is opened in write mode, and it holds afterwards the generations
\* written from memory and nothing of what it held.
C9_SaveAdditiveUnlessAll ==
    [][op'.name = "save" =>
          IF op'.n # N_all THEN KeepsGroups /\ AddsAbsentOnly
          ELSE \A g \in DOMAIN file'.gens :
                  /\ g \in 0..(Len(storage.history) - 1)
                  /\ file'.gens[g] = WrittenGroup(storage, g)]_vars

\* save(path, 2) found generation 0 in the file, written by an earlier save
\* (its count is the one of that time), skipped it and added generation 1
C9_Witness ==
    /\ op.name = "save" /\ op.n = N_int(2) /\ ~op.raised
    /\ DOMAIN file.gens = {0, 1}
    /\ file.gens[1] = WrittenGroup(storage, 1)
    /\ file.gens[1].count = storage.count
    /\ file.gens[0].count # storage.count

\* the generation group has the six subgroups
CompleteGeneration(g) == \A i \in 1..Len(GroupNames) : GroupNames[i] \in DOMAIN g.groups

\* the index of the final generation group of the file
FinalGeneration(f) == Cardinality(DOMAIN f.gens) - 1

\* a checkpoint that load reads and that holds no more individuals than the
\* parameter file, with every generation before the final one complete
CheckpointFile(f) ==
    /\ Loadable(f)
    /\ FinalGeneration(f) >= 0
    /\ Offset(load(f)) <= NumPoints
    /\ \A g \in 0..(FinalGeneration(f) - 1) : CompleteGeneration(f.gens[g])

\* C20: when Pregenerated is hot-started from a checkpoint whose final
\* generation group lacks at least one of the six subgroups, for every number
\* of complete generations before it and every number of individuals written
\* in it, the construction succeeds, the final generation is removed from the
\* storage in memory and from the file, and the driver resumes at the index
\* of the removed generation; a checkpoint whose generations are all
\* complete is left unchanged.
C20_BrokenGenerationDiscarded ==
    [][(op'.name = "hot_start" /\ CheckpointFile(file)) =>
          /\ ~op'.raised
          /\ IF CompleteGeneration(file.gens[FinalGeneration(file)])
             THEN file' = file /\ Len(storage'.history) = FinalGeneration(file) + 1
             ELSE /\ DOMAIN file'.gens = DOMAIN file.gens \ {FinalGeneration(file)}
                  /\ \A g \in DOMAIN file'.gens : file'.gens[g] = file.gens[g]
                  /\ Len(storage'.history) = FinalGeneration(file)
                  /\ pregen'.start_iter = Some(FinalGeneration(file))]_vars

\* the members of every list of col, in order
Membership(col) == [g \in 1..Len(col) |-> Identity(col[g])]

\* the fitness, rank, energy and normalized objectives recorded for the
\* individuals of a population
Recorded(population) ==
    [i \in 1..Len(population) |->
        [fitness |-> population[i].fitness, rank |-> population[i].rank,
         energy |-> population[i].energy,
         normalized_objectives |-> population[i].normalized_objectives]]

\* C22: global_rerank replaces only survivors[-1] and specialists[-1]: the
\* number of generations, the membership and order of every history,
\* failed, prev_survivors and prev_specialists list, every earlier
\* survivors and specialists list, and the recorded fitness, rank, energy
\* and normalized objectives of the individuals of every earlier generation
\* are the same after the call as before it.
C22_RerankLeavesEarlierGenerations ==
    [][op'.name = "global_rerank" =>
          /\ Len(storage'.history) = Len(storage.history)
          /\ Membership(storage'.history) = Membership(storage.history)
          /\ Membership(storage'.failed) = Membership(storage.failed)
          /\ Membership(storage'.prev_survivors) = Membership(storage.prev_survivors)
          /\ Membership(storage'.prev_specialists) = Membership(storage.prev_specialists)
          /\ DelLast(storage'.survivors) = DelLast(storage.survivors)
          /\ DelLast(storage'.specialists) = DelLast(storage.specialists)
          /\ \A g \in 1..(Len(storage.history) - 1) :
                Recorded(storage'.history[g]) = Recorded(storage.history[g])]_vars

\* C21: constructing Sobol with hot_start=True, an existing checkpoint file
\* that holds generations and an existing parameter file succeeds, and the
\* driver resumes from the generations stored in the checkpoint instead of
\* raising an error.
C21_SobolHotStarts ==
    [][(/\ op'.name = "Sobol" /\ op'.kwargs["hot_start"] /\ ~op'.kwargs["params_empty"]
        /\ CheckpointFile(file)
        /\ CompleteGeneration(file.gens[FinalGeneration(file)])) =>
          /\ ~op'.raised
          /\ Len(storage'.history) = FinalGeneration(file) + 1
          /\ pregen'.start_iter = Some(FinalGeneration(file) + 1)]_vars

----------------------------------------------------------------------------
(* class RelativeBoundedStep                                               *)
(*                                                                         *)
(* A parameter value is held as a whole number of steps of the grid of     *)
(* its parameter: x[i] stands for x[i] * Unit[i] / 2.  One step of the     *)
(* grid is the distance to the next representable number, so that          *)
(* np.nextafter(v, v + 1) is v + 1, and random.uniform(low, high) draws     *)
(* one of the numbers of [low, high), or low when low = high.               *)
(* stepsize is held in halves: stepsize 2 stands for 1.0.                   *)
(* The modelled bounds are positive and span less than one order of        *)
(* magnitude, where generate_param takes linear_step (abs_order_mag <= 1). *)

StepParamNames == <<"a", "b", "c">>
param_indexes == [name \in Range(StepParamNames) |->
                     CHOOSE i \in 1..Len(StepParamNames) : StepParamNames[i] = name]

\* the grid of a is twice as coarse as those of b and c
Unit == <<2, 1, 1>>

\* bounds = [(1., 5.), (1., 3.), (1., 3.)]
StepBounds == <<<<1, 5>>, <<2, 6>>, <<2, 6>>>>

\* factor * x[ind] of a rule, on the grid of the rule's dependent parameter
RelativeBound(rule, x) ==
    (rule.factor[1] * x[param_indexes[rule.ind]] * Unit[param_indexes[rule.ind]])
        \div (rule.factor[2] * Unit[param_indexes[rule.dep]])

Rule(dep, operator, factor, ind) == [dep |-> dep, op |-> operator, factor |-> factor, ind |-> ind]

\* random.uniform(low, high)
uniform(low, high) == IF low = high THEN {low} ELSE low..(high - 1)

\* RelativeBoundedStep.__init__, with x0 and bounds given
RelativeBoundedStep(x0, param_names, bounds, rel_bounds, stepsize, wrap) ==
    [x0 |-> x0, param_names |-> param_names,
     xmin |-> [i \in 1..Len(bounds) |-> bounds[i][1]],
     xmax |-> [i \in 1..Len(bounds) |-> bounds[i][2]],
     x_range |-> [i \in 1..Len(bounds) |-> bounds[i][2] - bounds[i][1]],
     rel_bounds |-> rel_bounds, stepsize |-> stepsize, wrap |-> wrap]

\* linear_step that adds the drawn delta and does not wrap around the bounds
linear_step_NoWrapAround(t, xi, i, xi_min, xi_max, stepsize, wrap) ==
    LET step == (stepsize * t.x_range[i]) \div 4
    IN {xi + delta : delta \in uniform(-step, step)}

\* RelativeBoundedStep.linear_step: the values it can return
linear_step(t, xi, i, xi_min, xi_max, stepsize, wrap) ==
    LET step == (stepsize * t.x_range[i]) \div 4
    IN IF wrap
       THEN {LET new_xi == xi + delta
             IN IF xi_min > new_xi THEN Max(xi_max - (xi_min - new_xi), xi_min)
                ELSE IF xi_max < new_xi THEN Min(xi_min + (new_xi - xi_max), xi_max)
                ELSE new_xi :
             delta \in uniform(-Min(step, xi_max - xi_min), Min(step, xi_max - xi_min))}
       ELSE uniform(Max(xi_min, xi - step), Min(xi_max, xi + step))

\* RelativeBoundedStep.generate_param, for abs_order_mag[i] <= 1
generate_param(t, xi, i, xi_min, xi_max, stepsize, wrap) ==
    IF xi_min = xi_max THEN {xi_min}
    ELSE linear_step(t, xi, i, xi_min, xi_max, stepsize, wrap)

\* the for loop of __call__: the vectors it can give from position i on
RECURSIVE StepParams(_, _, _, _, _)
StepParams(t, x, i, stepsize, wrap) ==
    IF i > Len(x) THEN {x}
    ELSE UNION {StepParams(t, [x EXCEPT ![i] = new_xi], i + 1, stepsize, wrap) :
                   new_xi \in generate_param(t, x[i], i, t.xmin[i], t.xmax[i], stepsize, wrap)}

\* one rule of apply_rel_bounds on new_x, new_min, new_max: the outcomes
ApplyRule(t, s, rule, stepsize) ==
    LET dep == param_indexes[rule.dep]
        rel == RelativeBound(rule, s.new_x)
        new_max == IF rule.op = "<" THEN Max(Min(s.new_max[dep], rel), s.new_min[dep])
                   ELSE IF rule.op = "<=" THEN Max(Min(s.new_max[dep], rel + 1), s.new_min[dep])
                   ELSE s.new_max[dep]
        new_min == IF rule.op = ">=" THEN Min(Max(s.new_min[dep], rel), s.new_max[dep])
                   ELSE IF rule.op = ">" THEN Min(Max(s.new_min[dep], rel + 1), s.new_max[dep])
                   ELSE s.new_min[dep]
        narrowed == [s EXCEPT !.new_min[dep] = new_min, !.new_max[dep] = new_max]
    IN IF s.raised THEN {s}
       ELSE IF rule.op = "="
       THEN IF rel >= t.xmin[dep] /\ rel < t.xmax[dep]
            THEN {[s EXCEPT !.new_x[dep] = rel]}
            ELSE {[s EXCEPT !.raised = TRUE]}
       ELSE IF ~(new_min <= s.new_x[dep] /\ s.new_x[dep] < new_max)
       THEN {[narrowed EXCEPT !.new_x[dep] = new_xi] :
                new_xi \in generate_param(t, Min(Max(s.new_x[dep], new_min), new_max), dep,
                                          new_min, new_max, stepsize, FALSE)}
       ELSE {narrowed}

\* the for loop over the rules of apply_rel_bounds, from rule r on
RECURSIVE ApplyRules(_, _, _, _)
ApplyRules(t, outcomes, r, stepsize) ==
    IF r > Len(t.rel_bounds) THEN outcomes
    ELSE ApplyRules(t, UNION {ApplyRule(t, s, t.rel_bounds[r], stepsize) : s \in outcomes},
                    r + 1, stepsize)

\* RelativeBoundedStep.apply_rel_bounds: the vectors it can return, or raised
apply_rel_bounds(t, x, stepsize) ==
    {[x |-> s.new_x, raised |-> s.raised] :
        s \in ApplyRules(t, {[new_x |-> x, new_min |-> t.xmin, new_max |-> t.xmax,
                              raised |-> FALSE]}, 1, stepsize)}

\* RelativeBoundedStep.__call__(current_x): the vectors it can return, or
\* raised when it raises; rel_bounds None is the empty list of rules
RelativeBoundedStep_call(t, current_x) ==
    UNION {apply_rel_bounds(t, x, t.stepsize) :
              x \in StepParams(t, current_x, 1, t.stepsize, t.wrap)}

\* RelativeBoundedStep.check_bounds
check_bounds(t, x) ==
    /\ \A i \in 1..Len(x) :
          ~(x[i] = t.xmin[i] /\ x[i] = t.xmax[i]) => (x[i] >= t.xmin[i] /\ x[i] <= t.xmax[i])
    /\ \A r \in 1..Len(t.rel_bounds) :
          LET rule == t.rel_bounds[r]
              xd == x[param_indexes[rule.dep]]
              y == RelativeBound(rule, x)
          IN CASE rule.op = "=" -> xd = y
               [] rule.op = "<" -> xd < y
               [] rule.op = "<=" -> xd <= y
               [] rule.op = ">=" -> xd >= y
               [] rule.op = ">" -> xd > y

----------------------------------------------------------------------------
(* RelativeBoundedStep called on a vector.  pa is the RelativeBoundedStep  *)
(* object; op.current_x is the vector the last call was given and op.x     *)
(* the vector it returned, which the next call is given.                    *)

\* rel_bounds: None, one rule, two rules that chain in either order, a rule
\* with "=", and rules with ">=" and "<"
RelBounds ==
    {<<>>,
     <<Rule("b", "<=", <<1, 2>>, "a")>>,
     <<Rule("b", "<=", <<1, 2>>, "a"), Rule("c", "<=", <<1, 1>>, "b")>>,
     <<Rule("c", "<=", <<1, 1>>, "b"), Rule("b", "<=", <<1, 2>>, "a")>>,
     <<Rule("b", "=", <<1, 2>>, "a")>>,
     <<Rule("a", ">=", <<2, 1>>, "b"), Rule("c", "<", <<1, 1>>, "b")>>}

\* stepsize 0., 0.5 and 1.
Stepsizes == 0..2

\* x0 = [4., 2., 1.] is within the bounds and meets the rules of every rel_bounds
StepX0 == <<4, 4, 2>>

\* the vectors whose components lie within the absolute bounds
WithinBounds ==
    {x \in [1..Len(StepBounds) -> 1..6] :
        \A i \in 1..Len(StepBounds) : StepBounds[i][1] <= x[i] /\ x[i] <= StepBounds[i][2]}

InitStep ==
    /\ \E rel_bounds \in RelBounds, stepsize \in Stepsizes, wrap \in BOOLEAN :
          /\ pa = RelativeBoundedStep(StepX0, StepParamNames, StepBounds, rel_bounds,
                                      stepsize, wrap)
          /\ check_bounds(pa, StepX0)
    /\ \E current_x \in WithinBounds :
          op = [name |-> "", current_x |-> current_x, x |-> current_x, raised |-> FALSE]
    /\ storage = NoStorage
    /\ file = NoFile
    /\ pc = "new"
    /\ batch = <<>>
    /\ pregen = NoPregen
    /\ evaluate = NoEvaluation

\* take_step(current_x), on the vector given first or on the vector that
\* the call before returned
TakeStep ==
    /\ ~op.raised
    /\ \E result \in RelativeBoundedStep_call(pa, op.x) :
          op' = [name |-> "call", current_x |-> op.x,
                 x |-> IF result.raised THEN op.x ELSE result.x, raised |-> result.raised]
    /\ UNCHANGED <<pa, storage, file, pc, batch, pregen, evaluate>>

NextStep == TakeStep

SpecStep == InitStep /\ [][NextStep]_vars

----------------------------------------------------------------------------
(* Properties of RelativeBoundedStep *)

C19_ReturnsWithinRelBounds ==
    (op.name = "call" /\ ~op.raised) => check_bounds(pa, op.x)

----------------------------------------------------------------------------
(* The ranking and selection functions, called on a list of candidates.    *)
(* The list is pa.population; what the function called last returned is    *)
(* op.returned.                                                            *)

\* the objective arrays of the candidates: every array of one and of two
\* objectives, and arrays of three objectives among which a dominated
\* array has the energy of one that nobody dominates
ObjectiveArrays ==
    {[1..1 -> ObjVals], [1..2 -> ObjVals],
     {<<0, 0, 1>>, <<0, 1, 1>>, <<1, 1, 0>>, <<1, 0, 0>>}}

\* the lists of candidates: up to MaxCandidates individuals that all have
\* objectives, the same number of objectives for all of them
CandidateLists ==
    UNION {{[i \in 1..n |-> [Individual(<<0>>, Some(i - 1)) EXCEPT !.objectives = Some(v[i])]] :
               v \in [1..n -> arrays]} :
           n \in 1..MaxCandidates, arrays \in ObjectiveArrays}

\* op.name is the function called last, with the arguments it was given
\* and the list it returned; op.calls counts the calls of that function
RankingOp == [name |-> "", num_survivors |-> 0, num_diversity_survivors |-> 0,
              fitness_range |-> 0, returned |-> <<>>, calls |-> 0]

InitRanking ==
    /\ \E candidates \in CandidateLists :
          pa = [PopulationAnnealing(1, 1, 1, FALSE) EXCEPT !.population = candidates]
    /\ storage = NoStorage
    /\ file = NoFile
    /\ pc = "new"
    /\ batch = <<>>
    /\ pregen = NoPregen
    /\ evaluate = NoEvaluation
    /\ op = RankingOp

\* assign_fitness_by_dominance(population)
AssignFitness ==
    /\ op.name = ""
    /\ pa' = [pa EXCEPT !.population = assign_fitness_by_dominance(@)]
    /\ op' = [op EXCEPT !.name = "assign_fitness_by_dominance"]
    /\ UNCHANGED <<storage, file, pc, batch, pregen, evaluate>>

\* evaluate_population_annealing(population): min_objectives and
\* max_objectives are None and the edges are taken from the population
EvaluateCandidates ==
    /\ op.name = ""
    /\ pa' = [pa EXCEPT !.population = evaluate_population_annealing(@, <<>>, <<>>)]
    /\ op' = [op EXCEPT !.name = "evaluate_population_annealing"]
    /\ UNCHANGED <<storage, file, pc, batch, pregen, evaluate>>

\* the list has been through evaluate_population_annealing
Ranked == \A i \in 1..Len(pa.population) : pa.population[i].rank # None

\* the first call on the list after its evaluation
FirstCall == Ranked /\ op.name = "evaluate_population_annealing"

\* get_specialists(population)
GetSpecialists ==
    /\ FirstCall
    /\ op' = [RankingOp EXCEPT !.name = "get_specialists",
                                !.returned = get_specialists(pa.population),
                                !.calls = 1]
    /\ UNCHANGED <<pa, storage, file, pc, batch, pregen, evaluate>>

\* the arguments the selection functions are called with
NumSurvivorsArgs == 0..2
NumDiversitySurvivorsArgs == 0..2
FitnessRangeArgs == 1..FitnessRange

\* SelectCall that sets the survivor attribute of the individuals it selects
SelectCall_MarksSurvivors(population, num_survivors, num_diversity_survivors, fitness_range) ==
    [population |->
        [i \in 1..Len(population) |->
            [population[i] EXCEPT !.survivor =
                i \in Range(SelectedPositions(population, num_survivors,
                                              num_diversity_survivors, fitness_range))]],
     returned |-> select_survivors_by_rank_and_fitness(population, num_survivors,
                                                       num_diversity_survivors, fitness_range)]

\* a call of select_survivors_by_rank_and_fitness: the list it was given as
\* the call leaves it, and the list it returns
SelectCall(population, num_survivors, num_diversity_survivors, fitness_range) ==
    [population |-> population,
     returned |-> select_survivors_by_rank_and_fitness(population, num_survivors,
                                                       num_diversity_survivors, fitness_range)]

\* select_survivors_by_rank_and_fitness(population, num_survivors,
\*                                      num_diversity_survivors, fitness_range)
\* for the first time, or once more with the arguments of the call before
SelectByRankAndFitness ==
    /\ \/ FirstCall
       \/ op.name = "select_survivors_by_rank_and_fitness" /\ op.calls < MaxCalls
    /\ \E num_survivors \in NumSurvivorsArgs :
       \E num_diversity_survivors \in NumDiversitySurvivorsArgs :
       \E fitness_range \in FitnessRangeArgs :
       \E selection \in {SelectCall(pa.population, num_survivors, num_diversity_survivors,
                                    fitness_range)} :
          /\ FirstCall \/ (/\ num_survivors = op.num_survivors
                            /\ num_diversity_survivors = op.num_diversity_survivors
                            /\ fitness_range = op.fitness_range)
          /\ pa' = [pa EXCEPT !.population = selection.population]
          /\ op' = [name |-> "select_survivors_by_rank_and_fitness",
                    num_survivors |-> num_survivors,
                    num_diversity_survivors |-> num_diversity_survivors,
                    fitness_range |-> fitness_range,
                    returned |-> selection.returned,
                    calls |-> IF FirstCall THEN 1 ELSE op.calls + 1]
    /\ UNCHANGED <<storage, file, pc, batch, pregen, evaluate>>

\* select_survivors_by_rank(population, num_survivors), for the first time
\* or once more with the argument of the call before
SelectByRank ==
    /\ \/ FirstCall
       \/ op.name = "select_survivors_by_rank" /\ op.calls < MaxCalls
    /\ \E num_survivors \in NumSurvivorsArgs :
          /\ FirstCall \/ num_survivors = op.num_survivors
          /\ op' = [RankingOp EXCEPT !.name = "select_survivors_by_rank",
                                     !.num_survivors = num_survivors,
                                     !.returned = select_survivors_by_rank(pa.population,
                                                                           num_survivors),
                                     !.calls = IF FirstCall THEN 1 ELSE op.calls + 1]
    /\ UNCHANGED <<pa, storage, file, pc, batch, pregen, evaluate>>

NextRanking ==
    \/ AssignFitness
    \/ EvaluateCandidates
    \/ GetSpecialists
    \/ SelectByRankAndFitness
    \/ SelectByRank

SpecRanking == InitRanking /\ [][NextRanking]_vars

----------------------------------------------------------------------------
(* Properties of the ranking and selection functions *)

NumObjectives(population) == Len(Objs(population[1]))

\* p dominates q: every objective of p is <= that of q, one is strictly less
Dominates(p, q) ==
    /\ \A m \in 1..Len(Objs(p)) : Objs(p)[m] <= Objs(q)[m]
    /\ \E m \in 1..Len(Objs(p)) : Objs(p)[m] < Objs(q)[m]

FitnessValues(population) == {the(population[i].fitness) : i \in 1..Len(population)}

\* the fitness values are contiguous integers from 0, nobody is dominated
\* by an individual of its own front, and fitness 0 goes exactly to the
\* individuals that nobody dominates
DominanceFronts(population) ==
    LET P == 1..Len(population)
    IN /\ \A i \in P : population[i].fitness # None
       /\ \E top \in 0..Len(population) : FitnessValues(population) = 0..top
       /\ \A i, j \in P : population[i].fitness = population[j].fitness
                              => ~Dominates(population[i], population[j])
       /\ \A i \in P : population[i].fitness = Some(0)
                          <=> \A j \in P : ~Dominates(population[j], population[i])

\* C11 as stated: with one objective or with several,
\* assign_fitness_by_dominance gives fitness values that are contiguous
\* integers from 0, no individual is dominated by one of its own front, and
\* fitness 0 goes exactly to the individuals that nobody dominates.
C11_DominanceFrontsAnyObjectives ==
    op.name = "assign_fitness_by_dominance" => DominanceFronts(pa.population)

\* C11 amended: the same for individuals with two or more objectives; with
\* a single objective every individual gets fitness 0.
C11_DominanceFronts ==
    op.name = "assign_fitness_by_dominance" =>
        IF NumObjectives(pa.population) > 1 THEN DominanceFronts(pa.population)
        ELSE \A i \in 1..Len(pa.population) : pa.population[i].fitness = Some(0)

C11_Witness ==
    /\ op.name = "assign_fitness_by_dominance"
    /\ NumObjectives(pa.population) > 1
    /\ FitnessValues(pa.population) = 0..2
    /\ \E i, j \in 1..Len(pa.population) :
          /\ i # j /\ pa.population[i].fitness = Some(1) /\ pa.population[j].fitness = Some(1)
          /\ Objs(pa.population[i]) # Objs(pa.population[j])

\* C12: after evaluate_population_annealing on a non-empty population of n
\* individuals the ranks are a permutation of 0 .. n-1, a lower fitness has
\* the lower rank, and within one fitness a lower energy has the lower rank.
C12_RankByFitnessThenEnergy ==
    op.name = "evaluate_population_annealing" =>
        LET population == pa.population
            P == 1..Len(population)
            rank(i) == the(population[i].rank)
            fitness(i) == the(population[i].fitness)
            energy(i) == the(population[i].energy)
        IN /\ \A i \in P : population[i].rank # None
           /\ {rank(i) : i \in P} = 0..(Len(population) - 1)
           /\ \A i, j \in P : i # j => rank(i) # rank(j)
           /\ \A a, b \in P : fitness(a) < fitness(b) => rank(a) < rank(b)
           /\ \A a, b \in P : (fitness(a) = fitness(b) /\ energy(a) < energy(b))
                                 => rank(a) < rank(b)

\* three fronts, the individuals of the first front last in the list
C12_Witness ==
    /\ op.name = "evaluate_population_annealing"
    /\ \E a, b, c \in 1..Len(pa.population) :
          /\ a < b /\ b < c
          /\ pa.population[a].fitness = Some(2)
          /\ pa.population[b].fitness = Some(1)
          /\ pa.population[c].fitness = Some(0)
          /\ the(pa.population[c].rank) < the(pa.population[b].rank)
          /\ the(pa.population[b].rank) < the(pa.population[a].rank)

\* C14: get_specialists returns one individual per objective, in objective
\* order: the m-th has the minimum of objective m over the whole population
\* and, among the individuals tied at that minimum, the lowest energy.
C14_SpecialistPerObjective ==
    op.name = "get_specialists" =>
        LET population == pa.population
            P == 1..Len(population)
            specialists == op.returned
        IN /\ Len(specialists) = NumObjectives(population)
           /\ \A m \in 1..Len(specialists) :
                 /\ \E i \in P : population[i] = specialists[m]
                 /\ \A i \in P : Objs(specialists[m])[m] <= Objs(population[i])[m]
                 /\ \A i \in P : Objs(population[i])[m] = Objs(specialists[m])[m]
                                    => the(specialists[m].energy) <= the(population[i].energy)

\* two objectives, and for one of them the specialist is not the first in
\* the list of the individuals tied at the minimum
C14_Witness ==
    /\ op.name = "get_specialists"
    /\ Len(op.returned) = 2
    /\ \E m \in 1..2 : \E i \in 1..Len(pa.population) :
          /\ Objs(pa.population[i])[m] = Objs(op.returned[m])[m]
          /\ the(pa.population[i].energy) > the(op.returned[m].energy)
          /\ the(pa.population[i].model_id) < the(op.returned[m].model_id)

\* the number of individuals the selection takes by rank alone
NumByRank == Min(op.num_survivors, Len(pa.population))

\* the individuals the selection returned after those taken by rank alone
DiversitySurvivors == SubSeq(op.returned, NumByRank + 1, Len(op.returned))

\* C15: select_survivors_by_rank_and_fitness over n ranked candidates returns
\* first the min(num_survivors, n) lowest-ranked individuals in rank order,
\* then at most num_diversity_survivors further individuals, each of them
\* not among the first group and with a fitness between 1 and fitness_range;
\* the result never has more than num_survivors + num_diversity_survivors
\* individuals and never holds the same individual twice.
C15_SurvivorsThenDiversity ==
    op.name = "select_survivors_by_rank_and_fitness" =>
        LET returned == op.returned
        IN /\ Len(returned) >= NumByRank
           /\ \A k \in 1..NumByRank : returned[k].rank = Some(k - 1)
           /\ Len(DiversitySurvivors) <= op.num_diversity_survivors
           /\ \A k \in 1..Len(DiversitySurvivors) :
                 /\ \E i \in 1..Len(pa.population) : pa.population[i] = DiversitySurvivors[k]
                 /\ the(DiversitySurvivors[k].rank) >= NumByRank
                 /\ the(DiversitySurvivors[k].fitness) \in 1..op.fitness_range
           /\ Len(returned) <= op.num_survivors + op.num_diversity_survivors
           /\ \A k, l \in 1..Len(returned) : k # l => returned[k].model_id # returned[l].model_id

\* two individuals by rank, then one of fitness 1 and one of fitness 2
C15_Witness ==
    /\ op.name = "select_survivors_by_rank_and_fitness"
    /\ op.num_survivors = 2 /\ op.num_diversity_survivors = 2
    /\ Len(op.returned) = 4
    /\ op.returned[2].fitness = Some(1)
    /\ op.returned[3].fitness = Some(1)
    /\ op.returned[4].fitness = Some(2)

\* the fitness bands of the diversity pool: the individuals not taken by
\* rank alone whose fitness is between 1 and fitness_range
Band(fitness) ==
    {i \in 1..Len(pa.population) :
        /\ the(pa.population[i].rank) >= NumByRank
        /\ pa.population[i].fitness = Some(fitness)}

\* the number of diversity survivors that come from a band
Promoted(fitness) ==
    Cardinality({k \in 1..Len(DiversitySurvivors) : DiversitySurvivors[k].fitness = Some(fitness)})

\* C16: the diversity survivors are sampled from the fitness bands in
\* proportion to the size of each band: a band that holds more of the
\* diversity pool never contributes fewer diversity survivors than a band
\* that holds less.
C16_ProportionalToBand ==
    op.name = "select_survivors_by_rank_and_fitness" =>
        \A f, g \in 1..op.fitness_range :
            (Cardinality(Band(f)) > Cardinality(Band(g)) /\ Cardinality(Band(g)) > 0)
                => Promoted(f) >= Promoted(g)

----------------------------------------------------------------------------
(* The fitness, ranking and selection functions called on a list in which  *)
(* individuals can lack objectives.  The list is pa.population; op.name is *)
(* the function called last, op.raised whether it raised, op.before the    *)
(* list it was called on and op.calls the number of calls so far.          *)

\* the lists: up to MaxListed individuals, each without objectives or with
\* one objective value, none of them evaluated or ranked yet
ListedIndividuals ==
    {Individual(<<0>>, None)}
    \cup {[Individual(<<0>>, None) EXCEPT !.objectives = Some(<<v>>)] : v \in ObjVals}

Lists ==
    UNION {{[i \in 1..n |-> [l[i] EXCEPT !.model_id = Some(i - 1)]] :
               l \in [1..n -> ListedIndividuals]} : n \in 1..MaxListed}

FunctionOp == [name |-> "", raised |-> FALSE, before |-> <<>>, calls |-> 0]

InitLists ==
    /\ \E population \in Lists :
          pa = [PopulationAnnealing(1, 1, 1, FALSE) EXCEPT !.population = population]
    /\ storage = NoStorage
    /\ file = NoFile
    /\ pc = "new"
    /\ batch = <<>>
    /\ pregen = NoPregen
    /\ evaluate = NoEvaluation
    /\ op = FunctionOp

\* len(num_objectives) < pop_size: raise
objectives_not_stored(population) ==
    Cardinality({i \in 1..Len(population) : population[i].objectives # None}) < Len(population)

\* the check of assign_relative_energy
energy_not_assignable(population) ==
    \E i \in 1..Len(population) :
        \/ population[i].objectives = None
        \/ population[i].normalized_objectives = None
        \/ Len(the(population[i].objectives)) # Len(the(population[i].normalized_objectives))

\* len(rank_vals) < pop_size: raise, in sort_by_rank
rank_not_stored(population) ==
    Cardinality({i \in 1..Len(population) : population[i].rank # None}) < Len(population)

\* len(fitness_vals) < len(population): raise
fitness_not_stored(population) ==
    Cardinality({i \in 1..Len(population) : population[i].fitness # None}) < Len(population)

\* the call of a function on pa.population: the function raised, or left
\* the list as given
Called(name, raised, population) ==
    /\ op.calls < MaxFunctionCalls
    /\ pa' = [pa EXCEPT !.population = population]
    /\ op' = [name |-> name, raised |-> raised, before |-> pa.population,
              calls |-> op.calls + 1]
    /\ UNCHANGED <<storage, file, pc, batch, pregen, evaluate>>

\* get_objectives_edges(population)
CallGetObjectivesEdges ==
    Called("get_objectives_edges",
           Len(pa.population) # 0 /\ objectives_not_stored(pa.population), pa.population)

\* assign_fitness_by_dominance(population)
CallAssignFitness ==
    IF objectives_not_stored(pa.population)
    THEN Called("assign_fitness_by_dominance", TRUE, pa.population)
    ELSE Called("assign_fitness_by_dominance", FALSE, assign_fitness_by_dominance(pa.population))

\* assign_normalized_objectives(population)
CallAssignNormalizedObjectives ==
    IF objectives_not_stored(pa.population)
    THEN Called("assign_normalized_objectives", TRUE, pa.population)
    ELSE Called("assign_normalized_objectives", FALSE,
                assign_normalized_objectives(pa.population, <<>>, <<>>))

\* assign_relative_energy(population)
CallAssignRelativeEnergy ==
    IF energy_not_assignable(pa.population)
    THEN Called("assign_relative_energy", TRUE, pa.population)
    ELSE Called("assign_relative_energy", FALSE, assign_relative_energy(pa.population))

\* assign_crowding_distance(population)
CallAssignCrowdingDistance ==
    IF objectives_not_stored(pa.population)
    THEN Called("assign_crowding_distance", TRUE, pa.population)
    ELSE Called("assign_crowding_distance", FALSE, assign_crowding_distance(pa.population))

\* get_specialists(population); with objectives for all, on a list whose
\* energies are assigned
CallGetSpecialists ==
    /\ objectives_not_stored(pa.population)
       \/ \A i \in 1..Len(pa.population) : pa.population[i].energy # None
    /\ Called("get_specialists", objectives_not_stored(pa.population), pa.population)

\* evaluate_population_annealing(population)
CallEvaluatePopulationAnnealing ==
    IF objectives_not_stored(pa.population)
    THEN Called("evaluate_population_annealing", TRUE, pa.population)
    ELSE Called("evaluate_population_annealing", FALSE,
                evaluate_population_annealing(pa.population, <<>>, <<>>))

\* evaluate_random(population)
CallEvaluateRandom ==
    \E rank_vals \in Permutations_([i \in 1..Len(pa.population) |-> i - 1]) :
       \E r \in {evaluate_random(pa.population, rank_vals)} :
          Called("evaluate_random", r.raised, r.population)

\* select_survivors_by_rank(population, num_survivors)
CallSelectByRank ==
    Called("select_survivors_by_rank", rank_not_stored(pa.population), pa.population)

\* select_survivors_by_rank_and_fitness(population, num_survivors)
CallSelectByRankAndFitness ==
    Called("select_survivors_by_rank_and_fitness",
           fitness_not_stored(pa.population) \/ rank_not_stored(pa.population),
           pa.population)

NextLists ==
    \/ CallGetObjectivesEdges
    \/ CallAssignFitness
    \/ CallAssignNormalizedObjectives
    \/ CallAssignRelativeEnergy
    \/ CallAssignCrowdingDistance
    \/ CallGetSpecialists
    \/ CallEvaluatePopulationAnnealing
    \/ CallEvaluateRandom
    \/ CallSelectByRank
    \/ CallSelectByRankAndFitness

SpecLists == InitLists /\ [][NextLists]_vars

----------------------------------------------------------------------------
(* Properties of the functions on a list that lacks objectives *)

\* the function called last was given a list in which an individual has
\* no objectives
CalledOnLacking == op.name # "" /\ ~HasObjectives(op.before)

====
